---------------------------- MODULE Spec2Model ----------------------------
(***************************************************************************)
(* A model of the matching engine of contacts_matcher5000:                 *)
(*   - the normalizers of leadmatcher5000.py and of app.py,                *)
(*   - the company matcher match_companies of app.py,                      *)
(*   - the person matcher find_person_matches of leadmatcher5000.py,       *)
(*   - the aggregator find_matches(input_file, target_file, thresholds)    *)
(*     of leadmatcher5000.py.                                              *)
(* Text is modelled character by character: a Python str is a TLA+ string, *)
(* and every regular expression of the source is an operator that scans    *)
(* the string the way re.sub does (leftmost, greedy, non-overlapping).     *)
(* The alphabet is the ASCII subset of CharOrder, and white space is the   *)
(* space character.  A pandas cell is <<>> when it is NaN and <<s>> when   *)
(* it holds the text s.                                                    *)
(***************************************************************************)
EXTENDS Integers, Sequences, FiniteSets, TLC

(***************************************************************************)
(* Characters and strings                                                  *)
(***************************************************************************)

\* The characters of the model, in code-point order.
CharOrder == " &,-.0123456789@ABCDEFGHIJKLMNOPQRSTUVWXYZ_abcdefghijklmnopqrstuvwxyz"

UpperChars == "ABCDEFGHIJKLMNOPQRSTUVWXYZ"

LowerChars == "abcdefghijklmnopqrstuvwxyz"

DigitChars == "0123456789"

Char(s, i) == SubSeq(s, i, i)

CharsOf(s) == { Char(s, i) : i \in 1..Len(s) }

\* ord(c), relative to the model's alphabet.
CharCode == [c \in CharsOf(CharOrder) |->
               CHOOSE i \in 1..Len(CharOrder) : Char(CharOrder, i) = c]

LowerMap == [c \in CharsOf(CharOrder) |->
               IF c \in CharsOf(UpperChars)
               THEN Char(LowerChars, CHOOSE i \in 1..Len(UpperChars) : Char(UpperChars, i) = c)
               ELSE c]

\* \s of the regular expressions.
IsSpace(c) == c = " "

\* \w of the regular expressions.
IsWord(c) == c \in CharsOf(UpperChars) \cup CharsOf(LowerChars) \cup CharsOf(DigitChars) \cup {"_"}

\* min(S) of a non-empty set of integers
Min(S) == CHOOSE x \in S : \A y \in S : x <= y

\* max(S) of a non-empty set of integers
Max(S) == CHOOSE x \in S : \A y \in S : x >= y

RECURSIVE Lower(_)
\* str.lower(), by halves (the recursion is as deep as log2 of the length)
Lower(s) ==
    IF Len(s) = 0 THEN ""
    ELSE IF Len(s) = 1 THEN LowerMap[s]
    ELSE LET m == Len(s) \div 2
         IN  Lower(SubSeq(s, 1, m)) \o Lower(SubSeq(s, m + 1, Len(s)))

\* The first position at or after i whose character is not in cs (Len(s) + 1
\* when there is none).
SkipChars(s, i, cs) ==
    Min({ j \in i..Len(s) : Char(s, j) \notin cs } \cup { Len(s) + 1 })

\* The first position at or after i whose character is in cs.
FindChars(s, i, cs) ==
    Min({ j \in i..Len(s) : Char(s, j) \in cs } \cup { Len(s) + 1 })

\* str.lstrip(chars), chars given as a set of characters
LStrip(s, cs) == SubSeq(s, SkipChars(s, 1, cs), Len(s))

\* str.rstrip(chars)
RStrip(s, cs) ==
    SubSeq(s, 1, Max({ j \in 1..Len(s) : Char(s, j) \notin cs } \cup { 0 }))

\* str.strip(chars)
StripChars(s, cs) == RStrip(LStrip(s, cs), cs)

\* str.strip()
Strip(s) == StripChars(s, {" "})

\* s[i:].startswith(lit), i counted from 1
StartsWithAt(s, i, lit) ==
    /\ i + Len(lit) - 1 <= Len(s)
    /\ SubSeq(s, i, i + Len(lit) - 1) = lit

\* s.endswith(lit)
EndsWith(s, lit) == Len(lit) <= Len(s) /\ SubSeq(s, Len(s) - Len(lit) + 1, Len(s)) = lit

\* lit in s
Contains(s, lit) == \E i \in 1..(Len(s) + 1) : StartsWithAt(s, i, lit)

\* The position after the longest run of white space that starts at i (\s* at i).
SkipSpace(s, i) == SkipChars(s, i, {" "})

\* The position after the longest run of non-space characters that starts at i.
SkipNonSpace(s, i) == FindChars(s, i, {" "})

RECURSIVE SplitFrom(_, _)
SplitFrom(s, i) ==
    LET b == SkipSpace(s, i)
        e == SkipNonSpace(s, b)
    IN  IF b > Len(s) THEN << >> ELSE << SubSeq(s, b, e - 1) >> \o SplitFrom(s, e)

\* str.split(): the white-space separated words of s
Split(s) == SplitFrom(s, 1)

RECURSIVE Join(_, _)
\* sep.join(words)
Join(words, sep) ==
    IF Len(words) = 0 THEN ""
    ELSE IF Len(words) = 1 THEN words[1]
    ELSE words[1] \o sep \o Join(Tail(words), sep)

\* a < b on Python strings (code-point order)
StrLess(a, b) ==
    LET n == IF Len(a) < Len(b) THEN Len(a) ELSE Len(b)
        d == Min({ i \in 1..n : Char(a, i) # Char(b, i) } \cup { n + 1 })
    IN  IF d > n THEN Len(a) < Len(b)
        ELSE CharCode[Char(a, d)] < CharCode[Char(b, d)]

(***************************************************************************)
(* Python values read from a CSV with dtype=str: NaN or a text             *)
(***************************************************************************)

\* A missing cell (float NaN); pd.isna is true of it.
NaN == << >>

\* A cell holding the text s.
Text(s) == << s >>

\* A value that is not a text, such as the number 42: s is what str() makes
\* of it.
NonText(s) == << s, "not a str" >>

\* pd.isna(v)
IsNa(v) == v = NaN

\* str(v)
PyStr(v) == IF IsNa(v) THEN "nan" ELSE v[1]

(***************************************************************************)
(* normalize_company_name of leadmatcher5000.py                            *)
(***************************************************************************)

RECURSIVE KeepChars(_, _)
\* re.sub(r'[^\w\s<extra>]', '', s), by halves: the word characters, the
\* white space and the characters of extra are kept.
KeepChars(s, extra) ==
    IF Len(s) = 0 THEN ""
    ELSE IF Len(s) = 1
         THEN (IF IsWord(s) \/ IsSpace(s) \/ s \in extra THEN s ELSE "")
    ELSE LET m == Len(s) \div 2
         IN  KeepChars(SubSeq(s, 1, m), extra) \o KeepChars(SubSeq(s, m + 1, Len(s)), extra)

\* The patterns of the re.sub calls.  A pattern is a record: its kind names
\* the regular expression and lit is the text interpolated into it.
\*   amp       r'\s*\&\s*'
\*   qcr       r'qcr\s*holdings?\s*(?:inc|incorporated)?'
\*   division  rf'\s*{lit}\s+'
\*   suffix    rf'\s+{lit}(?:\s+|$)'
\*   run       one or more of the character lit (r'\s+', r'\.+')
\*   word      rf'\b{lit}\b'
Pattern(kind, lit) == [kind |-> kind, lit |-> lit]

\* The end of the match of r'\s*\&\s*' at i, or 0 when there is none: the
\* position after the match.
AmpMatchEnd(s, i) ==
    IF StartsWithAt(s, SkipSpace(s, i), "&") THEN SkipSpace(s, SkipSpace(s, i) + 1) ELSE 0

\* The end of the match of r'(?:inc|incorporated)?' at k.  The alternation is
\* ordered: 'inc' is tried first and, nothing following the group in the
\* pattern, its match is kept.
QcrGroupEnd(s, k) ==
    IF StartsWithAt(s, k, "inc") THEN k + 3
    ELSE IF StartsWithAt(s, k, "incorporated") THEN k + 12
    ELSE k

\* The end of the match of r's?\s*' at k.
QcrPluralEnd(s, k) == SkipSpace(s, IF StartsWithAt(s, k, "s") THEN k + 1 ELSE k)

\* The end of the match of r'qcr\s*holdings?\s*(?:inc|incorporated)?' at i,
\* or 0.
QcrMatchEnd(s, i) ==
    IF StartsWithAt(s, i, "qcr") /\ StartsWithAt(s, SkipSpace(s, i + 3), "holding")
    THEN QcrGroupEnd(s, QcrPluralEnd(s, SkipSpace(s, i + 3) + 7))
    ELSE 0

\* The end of the match of rf'\s*{div}\s+' at i, or 0.
DivisionMatchEnd(s, i, div) ==
    IF StartsWithAt(s, SkipSpace(s, i), div \o " ")
    THEN SkipSpace(s, SkipSpace(s, i) + Len(div))
    ELSE 0

\* The end of the match of r'(?:\s+|$)' at k, or 0.
SuffixTailEnd(s, k) ==
    IF StartsWithAt(s, k, " ") THEN SkipSpace(s, k)
    ELSE IF k = Len(s) + 1 THEN k
    ELSE 0

\* The end of the match of rf'\s+{suffix}(?:\s+|$)' at i, or 0.
SuffixMatchEnd(s, i, suffix) ==
    IF StartsWithAt(s, i, " ") /\ StartsWithAt(s, SkipSpace(s, i), suffix)
    THEN SuffixTailEnd(s, SkipSpace(s, i) + Len(suffix))
    ELSE 0

\* The end of the match of one or more c at i, or 0.
RunMatchEnd(s, i, c) == IF StartsWithAt(s, i, c) THEN SkipChars(s, i, {c}) ELSE 0

\* A word character stands at position p of s.
WordAt(s, p) == p \in 1..Len(s) /\ IsWord(Char(s, p))

\* The end of the match of rf'\b{lit}\b' at i, or 0.
WordMatchEnd(s, i, lit) ==
    IF /\ StartsWithAt(s, i, lit)
       /\ WordAt(s, i - 1) # WordAt(s, i)
       /\ WordAt(s, i + Len(lit) - 1) # WordAt(s, i + Len(lit))
    THEN i + Len(lit)
    ELSE 0

\* re.match of the pattern at position i: the position after the match, or 0.
MatchEnd(pat, s, i) ==
    CASE pat.kind = "amp"      -> AmpMatchEnd(s, i)
      [] pat.kind = "qcr"      -> QcrMatchEnd(s, i)
      [] pat.kind = "division" -> DivisionMatchEnd(s, i, pat.lit)
      [] pat.kind = "suffix"   -> SuffixMatchEnd(s, i, pat.lit)
      [] pat.kind = "run"      -> RunMatchEnd(s, i, pat.lit)
      [] pat.kind = "word"     -> WordMatchEnd(s, i, pat.lit)

RECURSIVE ReSubFrom(_, _, _, _)
RECURSIVE ReSubAt(_, _, _, _, _)
\* The substitution from position i on, the leftmost match starting at j
\* (behind the end of s when there is none): the match is replaced and the
\* scan goes on behind it.
ReSubAt(pat, repl, s, i, j) ==
    IF j > Len(s) THEN SubSeq(s, i, Len(s))
    ELSE SubSeq(s, i, j - 1) \o repl \o ReSubFrom(pat, repl, s, MatchEnd(pat, s, j))

\* The substitution from position i on (one level of recursion per match).
ReSubFrom(pat, repl, s, i) ==
    ReSubAt(pat, repl, s, i,
            Min({ j \in i..Len(s) : MatchEnd(pat, s, j) > 0 } \cup { Len(s) + 1 }))

\* re.sub(pattern, repl, s)
ReSub(pat, repl, s) == ReSubFrom(pat, repl, s, 1)

\* re.sub(r'\s*\&\s*', ' & ', name)
StandardizeAmp(s) == ReSub(Pattern("amp", ""), " & ", s)

\* re.sub(r'^the\s+', '', name)
RemoveLeadingThe(s) ==
    IF StartsWithAt(s, 1, "the ") THEN SubSeq(s, SkipSpace(s, 4), Len(s)) ELSE s

\* re.sub(r'qcr\s*holdings?\s*(?:inc|incorporated)?', 'qcr holdings', name)
QcrSub(s) == ReSub(Pattern("qcr", ""), "qcr holdings", s)

edu_keywords == << "university", "college", "institute", "school" >>

\* The education test with "university" as its only keyword.
is_edu_university_only(s) == Contains(s, edu_keywords[1])

\* any(keyword in name for keyword in edu_keywords)
is_edu(s) == \E n \in DOMAIN edu_keywords : Contains(s, edu_keywords[n])

suffixes == << "inc", "corp", "corporation", "llc", "ltd", "limited", "co",
               "company", "group", "holdings", "international", "intl",
               "worldwide", "global", "solutions", "services", "technologies",
               "technology", "tech", "plc", "lp", "llp", "gmbh", "sa", "ag",
               "nv", "bv", "pty", "proprietary" >>

divisions == << "division of", "subsidiary of", "part of", "a division of",
                "a subsidiary of" >>

abbrev_map == [ corp |-> "corporation", inc |-> "incorporated",
                intl |-> "international", tech |-> "technology",
                mfg |-> "manufacturing", svcs |-> "services", sys |-> "systems",
                grp |-> "group", hldg |-> "holding", univ |-> "university",
                hosp |-> "hospital", med |-> "medical", ctr |-> "center" ]

RECURSIVE ReSubEach(_, _, _, _, _, _)
\* for lit, repl in zip(lits, repls)[lo..hi]: s = re.sub(<kind with lit>, repl, s),
\* the loop split in halves (the passes run in the order of lits).
ReSubEach(kind, lits, repls, s, lo, hi) ==
    IF lo > hi THEN s
    ELSE IF lo = hi THEN ReSub(Pattern(kind, lits[lo]), repls[lo], s)
    ELSE LET m == (lo + hi) \div 2
             t == ReSubEach(kind, lits, repls, s, lo, m)
         IN  \* Len(t) >= 0 is true: asking for it computes t here, before the
             \* second half of the loop starts.
             IF Len(t) >= 0 THEN ReSubEach(kind, lits, repls, t, m + 1, hi) ELSE t

\* One blank for every pattern of lits.
Blanks(lits) == [n \in DOMAIN lits |-> " "]

\* for div in divisions: name = re.sub(rf'\s*{div}\s+', ' ', name)
RemoveDivisions(s) ==
    ReSubEach("division", divisions, Blanks(divisions), s, 1, Len(divisions))

\* words[i] = abbrev_map[word] for every word in abbrev_map; ' '.join(words)
ExpandAbbreviations(s) ==
    LET words == Split(s)
    IN  Join([n \in DOMAIN words |->
                 IF words[n] \in DOMAIN abbrev_map THEN abbrev_map[words[n]]
                 ELSE words[n]], " ")

RECURSIVE InsertByLen(_, _)
\* w put behind every word that is at least as long (a stable descending sort)
InsertByLen(sorted, w) ==
    IF Len(sorted) = 0 THEN << w >>
    ELSE IF Len(sorted[1]) >= Len(w) THEN << sorted[1] >> \o InsertByLen(Tail(sorted), w)
    ELSE << w >> \o sorted

RECURSIVE SortByLenDesc(_, _)
SortByLenDesc(words, acc) ==
    IF Len(words) = 0 THEN acc
    ELSE SortByLenDesc(Tail(words), InsertByLen(acc, words[1]))

\* sorted(suffixes, key=len, reverse=True)
sorted_suffixes == SortByLenDesc(suffixes, << >>)

\* for suffix in sorted(...): name = re.sub(rf'\s+{suffix}(?:\s+|$)', ' ', name)
RemoveSuffixes(s) ==
    ReSubEach("suffix", sorted_suffixes, Blanks(sorted_suffixes), s, 1, Len(sorted_suffixes))

\* Every run of the character c replaced by one c (r'\s+' -> ' ', r'\.+' -> '.').
CollapseRuns(s, c) == ReSub(Pattern("run", c), c, s)

\* Lines 258-265: the name as it stands when the special case and the
\* education check read it: lower-cased, stripped, punctuation removed, '&'
\* spaced, 'the' dropped.
CompanyCleaned(v) ==
    RemoveLeadingThe(StandardizeAmp(KeepChars(Strip(Lower(PyStr(v))), {"&", "."})))

\* Lines 288-313: the cleaned name after the division phrases are removed and
\* the abbreviations expanded, before any suffix is removed.
ExpandName(name) == ExpandAbbreviations(RemoveDivisions(name))

\* Lines 322-324: white space and dots standardized
Tidy(name) == StripChars(CollapseRuns(CollapseRuns(name, " "), "."), {" ", "."})

\* Lines 268-326, on the cleaned name
NormalizeCleaned(name) ==
    IF Contains(name, "qcr") THEN Strip(QcrSub(name))
    ELSE IF ~is_edu(name) THEN Tidy(RemoveSuffixes(ExpandName(name)))
    ELSE Tidy(ExpandName(name))

\* normalize_company_name(name) of leadmatcher5000.py
normalize_company_name(v) ==
    IF IsNa(v) THEN "" ELSE NormalizeCleaned(CompanyCleaned(v))

(***************************************************************************)
(* normalize_person_name and normalize_job_title of leadmatcher5000.py     *)
(***************************************************************************)

titles == << "dr", "mr", "mrs", "ms", "miss", "prof", "professor", "phd", "md",
             "mba", "esq", "cpa", "jr", "sr", "ii", "iii", "iv" >>

\* re.sub(rf'\s+{title}$', '', re.sub(rf'^{title}\s+', '', name))
RemoveTitle(name, title) ==
    LET t == IF StartsWithAt(name, 1, title \o " ")
             THEN SubSeq(name, SkipSpace(name, Len(title) + 1), Len(name))
             ELSE name
    IN  IF EndsWith(t, " " \o title)
        THEN RStrip(SubSeq(t, 1, Len(t) - Len(title)), {" "})
        ELSE t

RECURSIVE RemoveTitles(_, _, _)
\* for title in titles[lo..hi]: the two substitutions, the loop split in halves
RemoveTitles(name, lo, hi) ==
    IF lo = hi THEN RemoveTitle(name, titles[lo])
    ELSE LET m == (lo + hi) \div 2
             t == RemoveTitles(name, lo, m)
         IN  IF Len(t) >= 0 THEN RemoveTitles(t, m + 1, hi) ELSE t

\* A letter of [A-Za-z] stands at position p of s.
LetterAt(s, p) ==
    p \in 1..Len(s) /\ Char(s, p) \in CharsOf(UpperChars) \cup CharsOf(LowerChars)

RECURSIVE SpaceInitialsFrom(_, _)
\* re.sub(r'([A-Za-z])\.([A-Za-z])', r'\1. \2', name) from position i on:
\* the leftmost letter-dot-letter gets a blank behind its dot and the scan
\* goes on behind its second letter.
SpaceInitialsFrom(s, i) ==
    LET starts == { j \in i..Len(s) :
                      LetterAt(s, j) /\ StartsWithAt(s, j + 1, ".") /\ LetterAt(s, j + 2) }
    IN  IF starts = {} THEN SubSeq(s, i, Len(s))
        ELSE SubSeq(s, i, Min(starts) + 1) \o " " \o Char(s, Min(starts) + 2)
                 \o SpaceInitialsFrom(s, Min(starts) + 3)

\* normalize_person_name(name) of leadmatcher5000.py
normalize_person_name(v) ==
    IF IsNa(v) THEN ""
    ELSE Strip(CollapseRuns(
             SpaceInitialsFrom(
                 RemoveTitles(Strip(KeepChars(Lower(PyStr(v)), {"."})), 1, Len(titles)),
                 1),
             " "))

\* The keys and the values of level_map, in the order of the dict.
level_abbrs == << "sr", "jr", "svp", "vp", "ceo", "cfo", "cto", "coo", "cio", "cmo",
                  "pres", "exec", "mgr", "dir", "eng", "dev" >>

level_fulls == << "senior", "junior", "senior vice president", "vice president",
                  "chief executive officer", "chief financial officer",
                  "chief technology officer", "chief operating officer",
                  "chief information officer", "chief marketing officer",
                  "president", "executive", "manager", "director", "engineer",
                  "developer" >>

fillers == << "of", "the", "and", "&", "for", "to", "in", "at" >>

\* normalize_job_title(title) of leadmatcher5000.py
normalize_job_title(v) ==
    IF IsNa(v) THEN ""
    ELSE Strip(CollapseRuns(
             ReSubEach("word", fillers, Blanks(fillers),
                       ReSubEach("word", level_abbrs, level_fulls,
                                 Strip(Lower(PyStr(v))), 1, Len(level_abbrs)),
                       1, Len(fillers)),
             " "))

(***************************************************************************)
(* The similarity provider: fuzzywuzzy's fuzz and process, as the source   *)
(* calls them.  The ratio is the one of the pure-Python SequenceMatcher    *)
(* (difflib), which fuzzywuzzy always has: twice the number of characters  *)
(* in the matching blocks over the total length, as a rounded percentage.  *)
(***************************************************************************)

RECURSIVE NonWordToSpace(_)
\* re.sub(r'(?ui)\W', ' ', s), by halves
NonWordToSpace(s) ==
    IF Len(s) = 0 THEN ""
    ELSE IF Len(s) = 1 THEN (IF IsWord(s) THEN s ELSE " ")
    ELSE LET m == Len(s) \div 2
         IN  NonWordToSpace(SubSeq(s, 1, m)) \o NonWordToSpace(SubSeq(s, m + 1, Len(s)))

\* utils.full_process(s): non-alphanumerics to spaces, lower case, strip
full_process(s) == Strip(Lower(NonWordToSpace(s)))

RECURSIVE InsertSorted(_, _)
\* w put before the first word that is greater (a stable ascending sort)
InsertSorted(sorted, w) ==
    IF Len(sorted) = 0 THEN << w >>
    ELSE IF StrLess(w, sorted[1]) THEN << w >> \o sorted
    ELSE << sorted[1] >> \o InsertSorted(Tail(sorted), w)

RECURSIVE SortWords(_, _)
\* sorted(tokens)
SortWords(words, acc) ==
    IF Len(words) = 0 THEN acc
    ELSE LET t == InsertSorted(acc, words[1])
         IN  IF Len(t) >= 0 THEN SortWords(Tail(words), t) ELSE t

\* fuzz._process_and_sort(s, force_ascii, full_process=True)
process_and_sort(s) == Strip(Join(SortWords(Split(full_process(s)), << >>), " "))

\* The characters of s as a sequence, which is what SequenceMatcher indexes.
CharSeq(s) == [i \in 1..Len(s) |-> Char(s, i)]

\* SequenceMatcher(None, s1, s2): the two sequences and b2j, which maps a
\* character of b to the positions where it stands in b.  (No character is
\* junk: the strings compared are shorter than the 200 characters from which
\* difflib drops popular ones.)
SequenceMatcher(s1, s2) ==
    [a   |-> CharSeq(s1),
     b   |-> CharSeq(s2),
     b2j |-> [c \in CharsOf(s2) |-> { j \in 1..Len(s2) : Char(s2, j) = c }]]

\* The length of the longest common run of a and b that starts at a[i], b[j].
RunLen(sm, ahi, bhi, i, j) ==
    CHOOSE k \in 0..(IF ahi - i < bhi - j THEN ahi - i ELSE bhi - j) :
        /\ \A n \in 0..(k - 1) : sm.a[i + n] = sm.b[j + n]
        /\ \/ i + k = ahi
           \/ j + k = bhi
           \/ sm.a[i + k] # sm.b[j + k]

\* The matching blocks of a[alo..ahi-1] and b[blo..bhi-1] (positions from 1)
\* that cannot be extended to the left: << i, j, length >>.
Runs(sm, alo, ahi, blo, bhi) ==
    UNION { { << i, j, RunLen(sm, ahi, bhi, i, j) >> :
                j \in { n \in (IF sm.a[i] \in DOMAIN sm.b2j THEN sm.b2j[sm.a[i]] ELSE {}) :
                          /\ blo <= n
                          /\ n < bhi
                          /\ \/ i = alo
                             \/ n = blo
                             \/ sm.a[i - 1] # sm.b[n - 1] } }
            : i \in alo..(ahi - 1) }

\* Of blocks of one length, the one that starts earliest in a and then
\* earliest in b.
Earliest(blocks) ==
    CHOOSE r \in blocks :
        \A q \in blocks : r[1] < q[1] \/ (r[1] = q[1] /\ r[2] <= q[2])

\* The longest of the blocks, << alo, blo, 0 >> when there is none.
Longest(alo, blo, blocks) ==
    IF blocks = {} THEN << alo, blo, 0 >>
    ELSE Earliest(LET k == Max({ r[3] : r \in blocks }) IN { q \in blocks : q[3] = k })

\* SequenceMatcher.find_longest_match(alo, ahi, blo, bhi): << i, j, k >>, the
\* longest matching block, the one that starts earliest in a and then
\* earliest in b; k = 0 when no character matches.
find_longest_match(sm, alo, ahi, blo, bhi) ==
    Longest(alo, blo, Runs(sm, alo, ahi, blo, bhi))

RECURSIVE MatchingBlocks(_, _, _, _, _)
RECURSIVE MatchingBlocksAround(_, _, _, _, _, _)
\* The longest block m with the blocks to its left and to its right.
MatchingBlocksAround(sm, alo, ahi, blo, bhi, m) ==
    IF m[3] = 0 THEN {}
    ELSE { m } \cup MatchingBlocks(sm, alo, m[1], blo, m[2])
               \cup MatchingBlocks(sm, m[1] + m[3], ahi, m[2] + m[3], bhi)

\* SequenceMatcher.get_matching_blocks() without its closing block of size 0
MatchingBlocks(sm, alo, ahi, blo, bhi) ==
    IF alo >= ahi \/ blo >= bhi THEN {}
    ELSE MatchingBlocksAround(sm, alo, ahi, blo, bhi,
                              find_longest_match(sm, alo, ahi, blo, bhi))

RECURSIVE SumSizes(_)
\* The sum of the sizes of a set of blocks
SumSizes(blocks) ==
    IF blocks = {} THEN 0
    ELSE (CHOOSE m \in blocks : TRUE)[3]
             + SumSizes(blocks \ { CHOOSE m \in blocks : TRUE })

\* The number of matching characters of s1 and s2: the sum of the sizes of
\* SequenceMatcher(None, s1, s2).get_matching_blocks()
MatchingSize(s1, s2) ==
    SumSizes(MatchingBlocks(SequenceMatcher(s1, s2), 1, Len(s1) + 1, 1, Len(s2) + 1))

\* utils.intr(100 * ratio): int(round(x)) of the float 100 * (2.0 * m / t),
\* which rounds a half to the even neighbour.  The float 2.0 * 23 / 80 is
\* below 0.575, so that this one half is rounded down.
RoundedPercent(m, t) ==
    IF 80 * m = 23 * t THEN 57
    ELSE IF 2 * ((200 * m) % t) < t THEN (200 * m) \div t
    ELSE IF 2 * ((200 * m) % t) > t THEN (200 * m) \div t + 1
    ELSE IF ((200 * m) \div t) % 2 = 0 THEN (200 * m) \div t
    ELSE (200 * m) \div t + 1

\* fuzz.ratio(s1, s2): 100 for equal strings, 0 when one is empty, else the
\* rounded percentage of SequenceMatcher(None, s1, s2).ratio()
ratio(s1, s2) ==
    IF s1 = s2 THEN 100
    ELSE IF Len(s1) = 0 \/ Len(s2) = 0 THEN 0
    ELSE RoundedPercent(MatchingSize(s1, s2),
                        Len(s1) + Len(s2))

\* fuzz.token_sort_ratio(s1, s2)
token_sort_ratio(s1, s2) == ratio(process_and_sort(s1), process_and_sort(s2))

RECURSIVE SortedTokens(_)
\* " ".join(sorted(tokens)) of a set of tokens
SortedTokens(tokens) ==
    IF tokens = {} THEN ""
    ELSE IF Cardinality(tokens) = 1 THEN CHOOSE w \in tokens : TRUE
    ELSE (CHOOSE w \in tokens : \A x \in tokens : x = w \/ StrLess(w, x)) \o " "
             \o SortedTokens({ x \in tokens : \E w \in tokens : StrLess(w, x) })

\* The pairwise ratios of fuzz._token_set: the sorted intersection against
\* each of the two combined strings, and these against each other.
TokenSetPairwise(sorted_sect, combined_1to2, combined_2to1) ==
    Max({ ratio(sorted_sect, combined_1to2),
          ratio(sorted_sect, combined_2to1),
          ratio(combined_1to2, combined_2to1) })

\* fuzz._token_set on the token sets of the two processed strings
TokenSetOf(tokens1, tokens2) ==
    TokenSetPairwise(SortedTokens(tokens1 \cap tokens2),
                     Strip(SortedTokens(tokens1 \cap tokens2) \o " "
                               \o SortedTokens(tokens1 \ tokens2)),
                     Strip(SortedTokens(tokens1 \cap tokens2) \o " "
                               \o SortedTokens(tokens2 \ tokens1)))

\* The set of the words of a processed string: set(p.split())
TokenSet(p) == { Split(p)[i] : i \in 1..Len(Split(p)) }

\* fuzz.token_set_ratio(s1, s2): 0 when a processed string is empty
token_set_ratio(s1, s2) ==
    IF Len(full_process(s1)) = 0 \/ Len(full_process(s2)) = 0 THEN 0
    ELSE TokenSetOf(TokenSet(full_process(s1)), TokenSet(full_process(s2)))

\* The rounded percentage of SequenceMatcher(None, shorter, long_substr).ratio()
WindowRatio(shorter, long_substr) ==
    RoundedPercent(MatchingSize(shorter, long_substr),
                   Len(shorter) + Len(long_substr))

\* The best window of fuzz.partial_ratio: for every matching block, the
\* closing one included, the window of longer that starts where the block
\* puts the start of shorter.
PartialOf(shorter, longer) ==
    Max({ WindowRatio(shorter,
                      SubSeq(longer, long_start + 1,
                             Min({ long_start + Len(shorter), Len(longer) })))
            : long_start \in
                { Max({ 0, m[2] - m[1] }) :
                    m \in MatchingBlocks(SequenceMatcher(shorter, longer),
                                         1, Len(shorter) + 1, 1, Len(longer) + 1) }
                \cup { Len(longer) - Len(shorter) } })

\* fuzz.partial_ratio(s1, s2): 100 for equal arguments, 0 when one is empty
partial_ratio(s1, s2) ==
    IF s1 = s2 THEN 100
    ELSE IF Len(s1) = 0 \/ Len(s2) = 0 THEN 0
    ELSE IF Len(s1) <= Len(s2) THEN PartialOf(s1, s2)
    ELSE PartialOf(s2, s1)

\* max(fuzz.token_sort_ratio, fuzz.token_set_ratio, fuzz.partial_ratio)
BestRatio(s1, s2) ==
    Max({ token_sort_ratio(s1, s2), token_set_ratio(s1, s2), partial_ratio(s1, s2) })

(***************************************************************************)
(* normalize_company_name of app.py                                        *)
(***************************************************************************)

app_suffixes == << " inc", " inc.", " incorporated", " llc", " ltd", " limited",
                   " corp", " corp.", " corporation" >>

RECURSIVE app_strip_suffixes(_, _)
\* for suffix in suffixes: if name.endswith(suffix): name = name[:-len(suffix)]
app_strip_suffixes(name, n) ==
    IF n > Len(app_suffixes) THEN name
    ELSE LET t == IF EndsWith(name, app_suffixes[n])
                  THEN SubSeq(name, 1, Len(name) - Len(app_suffixes[n]))
                  ELSE name
         IN  IF Len(t) >= 0 THEN app_strip_suffixes(t, n + 1) ELSE t

\* normalize_company_name(name) of app.py; a NaN cell is not a str
app_normalize_company_name(v) ==
    IF IsNa(v) THEN ""
    ELSE Strip(CollapseRuns(KeepChars(app_strip_suffixes(Lower(v[1]), 1), {}), " "))

(***************************************************************************)
(* Rows of a file read by try_read_csv: a row is a function from the       *)
(* file's column names to cells, and every cell is a text or NaN           *)
(* (dtype=str).                                                            *)
(***************************************************************************)

\* Python's None
None == << >>

\* row.get(col, '')
GetCell(row, col) == IF col \in DOMAIN row THEN row[col] ELSE Text("")

\* f"{row.get('First Name', '')} {row.get('Last Name', '')}"
FullName(row) ==
    PyStr(GetCell(row, "First Name")) \o " " \o PyStr(GetCell(row, "Last Name"))

company_cols == << "Company", "Company Name", "Company Division Name" >>

\* The loop "for col in ['Company', 'Company Name', 'Company Division Name']":
\* None, or << str(row[col]) >> of the first such column whose cell is not NaN.
RowCompany(row) ==
    LET hits == { n \in DOMAIN company_cols :
                    company_cols[n] \in DOMAIN row /\ ~IsNa(row[company_cols[n]]) }
    IN  IF hits = {} THEN None ELSE << PyStr(row[company_cols[Min(hits)]]) >>

\* A row of a target file and a row of a source file with the columns the
\* matching reads.
TargetRow(company, first, last, email, title) ==
    [c \in { "Company", "First Name", "Last Name", "Email Address", "Job Title" } |->
        CASE c = "Company"       -> company
          [] c = "First Name"    -> first
          [] c = "Last Name"     -> last
          [] c = "Email Address" -> email
          [] c = "Job Title"     -> title]

SourceRow(company, first, last, email, position) ==
    [c \in { "Company", "First Name", "Last Name", "Email Address", "Position" } |->
        CASE c = "Company"       -> company
          [] c = "First Name"    -> first
          [] c = "Last Name"     -> last
          [] c = "Email Address" -> email
          [] c = "Position"      -> position]

\* thresholds: the values of display_current_settings
DefaultThresholds ==
    [company_name |-> 85, person_name |-> 85, email |-> 100, title |-> 70,
     department |-> 70]

(***************************************************************************)
(* The inputs of the model                                                 *)
(***************************************************************************)

\* The longest company name, in words, that the normalizer is given.
MaxWords == 3

\* The most rows of the target (ideal) file and of the source file that
\* match_companies is given.
MaxIdealRows == 2

MaxSourceRows == 2

\* The words the company names given to the normalizer are made of.
NormWords == { "The", "Acme", "Co", "School" }

\* The company names of the specification's examples.
ExampleNames == { "QCR Holdings Inc", "QCR Holdings", "QCR Holdings Incorporated",
                  "Acme Corporation", "Acme Corp", "ACME", "Globex Inc", "Globex",
                  "Acme University Inc" }

\* All sequences of 1..n elements of S.
SeqsUpTo(S, n) == UNION { [1..k -> S] : k \in 1..n }

\* The most words of a job title.
MaxTitleWords == 3

\* The words that the job titles are made of, and further titles and names.
TitleWords == { "Sales", "&", "Marketing", "of", "the", "VP" }

ExampleFields == { "and", "for", "to", "in", "at", "R&D", "Dr. Jane Doe", "J.R. Smith",
                   "Acme Corp" }

\* The values the three normalizers are called with: texts, a cell without a
\* value, and numbers.
FieldInputs ==
    { Text(Join(w, " ")) : w \in SeqsUpTo(TitleWords, MaxTitleWords) }
        \cup { Text(x) : x \in ExampleFields }
        \cup { NaN, NonText("42"), NonText("3.5") }

\* The values normalize_company_name is called with.
NormInputs ==
    { Text(Join(w, " ")) : w \in SeqsUpTo(NormWords, MaxWords) }
        \cup { Text(x) : x \in ExampleNames }

\* The company cells of the ideal file and of the source file of
\* match_companies.
IdealCells == { Text("Acme Inc"), Text("ACME"), Text("Acme X"), Text("Acme Y"), NaN }

SourceCells == { Text("acme inc."), Text("Acme"), Text("Acme Z"), NaN }

\* The company_threshold values match_companies is called with.
CompanyThresholds == { 80, 85 }

\* The most rows of the target file and of the source file that find_matches
\* is given.
MaxTargetContacts == 2

MaxSourceContacts == 2

\* The most rows that the two files of find_matches hold together.
MaxRosterRows == 4

\* The rows of the target file and of the source file of find_matches.
TargetRows ==
    { TargetRow(Text("Acme Corp"), Text("Jane"), Text("Doe"), Text("jane@acme.com"),
                Text("CEO")),
      TargetRow(Text("ACME"), Text("John"), Text("Roe"), NaN, Text("Engineer")),
      TargetRow(Text("Globex"), Text("Jane"), Text("Doe"), NaN, NaN),
      TargetRow(NaN, Text("John"), Text("Roe"), NaN, NaN),
      TargetRow(Text("acme corp"), Text("Jane"), Text("Doe"), NaN, NaN) }

SourceRows ==
    { SourceRow(Text("Acme"), Text("Jane"), Text("Doe"), NaN,
                Text("Chief Executive Officer")),
      SourceRow(Text("Acme Co"), Text("John"), Text("Roe"), Text("john@acme.com"),
                Text("Sr Eng")),
      SourceRow(Text("Globex"), Text("Mary"), Text("Major"), NaN, NaN),
      SourceRow(NaN, Text("Jane"), Text("Doe"), Text("jane@acme.com"), NaN),
      SourceRow(Text("Acme"), Text("Mary"), Text("Major"), Text("JANE@acme.com"),
                Text("Engineer")),
      SourceRow(Text("Acme"), Text("JANE"), Text("DOE"), NaN,
                Text("Chief Executive Officer")) }

\* The thresholds find_matches is called with.
RosterThresholds ==
    { DefaultThresholds, [DefaultThresholds EXCEPT !.person_name = 100, !.title = 100] }

\* The most rows of a dataset that is given both to match_companies and to
\* find_matches.
MaxPipelineRows == 2

\* The rows of the target dataset and of the source dataset that both
\* functions are run on.
PipelineTargetRows ==
    { TargetRow(Text("Acme Corporation"), Text("Jane"), Text("Doe"), Text("jane@acme.com"),
                Text("CTO")),
      TargetRow(Text("Globex"), NaN, NaN, NaN, NaN),
      TargetRow(NaN, Text("John"), Text("Roe"), NaN, NaN) }

PipelineSourceRows ==
    { SourceRow(Text("ACME Corp"), Text("Jane"), Text("Doe"), Text("jane@acme.com"),
                Text("Chief Technology Officer")),
      SourceRow(Text("Globex"), NaN, NaN, NaN, NaN),
      SourceRow(NaN, Text("Jane"), Text("Doe"), NaN, NaN) }

\* The column names of a file whose company column is called company_col.
TargetColumns(company_col) ==
    << company_col, "First Name", "Last Name", "Email Address", "Job Title" >>

SourceColumns(company_col) ==
    << company_col, "First Name", "Last Name", "Email Address", "Position" >>

\* A row whose column "Company" has the name company_col in the file.
WithCompanyColumn(row, company_col) ==
    [c \in (DOMAIN row \ { "Company" }) \cup { company_col } |->
        IF c = company_col THEN row["Company"] ELSE row[c]]

\* A dataset as pandas reads it: the column names and the rows.
Dataset(columns, rows, company_col) ==
    [columns |-> columns,
     rows    |-> [n \in DOMAIN rows |-> WithCompanyColumn(rows[n], company_col)]]

\* The target datasets, of which some call their company column
\* "Organization", and the source datasets.
PipelineTargets ==
    { Dataset(TargetColumns(company_col), rows, company_col) :
        company_col \in { "Company", "Organization" },
        rows \in { << >> } \cup SeqsUpTo(PipelineTargetRows, MaxPipelineRows) }

PipelineSources ==
    { Dataset(SourceColumns("Company"), rows, "Company") :
        rows \in { << >> } \cup SeqsUpTo(PipelineSourceRows, MaxPipelineRows) }

\* All the rows that the tables below are made for.
AllTargetRows == TargetRows \cup PipelineTargetRows

AllSourceRows == SourceRows \cup PipelineSourceRows

(***************************************************************************)
(* Results kept per input: each normalizer and the similarity are computed *)
(* once for every text of the inputs above and looked up afterwards; a     *)
(* text outside the tables is computed when it is asked for.               *)
(***************************************************************************)

AppCompanyCache ==
    [v \in IdealCells \cup SourceCells
            \cup { r["Company"] : r \in PipelineTargetRows \cup PipelineSourceRows } |->
        app_normalize_company_name(v)] @@ << >>

\* The entry of v in a table; computed is taken when v has none.  (A table
\* is a function joined with the empty one, f @@ << >>, which is f with
\* its values worked out once.)
Lookup(cache, v, computed) == IF v \in DOMAIN cache THEN cache[v] ELSE computed

\* normalize_company_name(v) of app.py, looked up
AppNormalizedCompany(v) == Lookup(AppCompanyCache, v, app_normalize_company_name(v))

CompanyCache ==
    [v \in { r["Company"] : r \in AllTargetRows \cup AllSourceRows } |->
        normalize_company_name(v)]
        @@ << >>

\* normalize_company_name(v) of leadmatcher5000.py, looked up
NormalizedCompany(v) == Lookup(CompanyCache, v, normalize_company_name(v))

PersonCache ==
    [v \in { Text(FullName(r)) : r \in AllTargetRows \cup AllSourceRows } |->
        normalize_person_name(v)] @@ << >>

\* normalize_person_name(v), looked up
NormalizedPerson(v) == Lookup(PersonCache, v, normalize_person_name(v))

TitleCache ==
    [v \in { r["Job Title"] : r \in AllTargetRows }
            \cup { r["Position"] : r \in AllSourceRows } |->
        normalize_job_title(v)] @@ << >>

\* normalize_job_title(v), looked up
NormalizedTitle(v) == Lookup(TitleCache, v, normalize_job_title(v))

\* The values of a table, paired with each other.
Pairs(cache) == { cache[v] : v \in DOMAIN cache } \X { cache[v] : v \in DOMAIN cache }

\* The pairs of texts whose similarity is kept.
ScoredPairs ==
    Pairs(AppCompanyCache) \cup Pairs(CompanyCache) \cup Pairs(PersonCache)
        \cup Pairs(TitleCache)

TokenSortCache == [p \in ScoredPairs |-> token_sort_ratio(p[1], p[2])] @@ << >>

\* fuzz.token_sort_ratio(s1, s2), looked up
TokenSortScore(s1, s2) == Lookup(TokenSortCache, << s1, s2 >>, token_sort_ratio(s1, s2))

(***************************************************************************)
(* fuzzywuzzy's process.extractOne and match_companies of app.py           *)
(***************************************************************************)

\* The names app.py looks for among the columns of a file.
app_company_columns == { "Company", "Company Name" }

\* The first column of a file, whatever its name
app_first_col(df) == IF Len(df.columns) = 0 THEN None ELSE << df.columns[1] >>

\* next((col for col in df.columns if col in ["Company", "Company Name"]), None)
app_company_col(df) ==
    LET hits == { n \in DOMAIN df.columns : df.columns[n] \in app_company_columns }
    IN  IF hits = {} THEN None ELSE << df.columns[Min(hits)] >>

\* The choice a max() keeping the last of equal scores would return.
LastBest(choices, score) ==
    LET best == Max({ score[n] : n \in DOMAIN choices })
    IN  << choices[Max({ n \in DOMAIN choices : score[n] = best })], best >>

\* max(scored choices, key=score): << choice, score >> of the first choice
\* with the highest score (max() keeps the first of equal scores).
FirstBest(choices, score) ==
    LET best == Max({ score[n] : n \in DOMAIN choices })
    IN  << choices[Min({ n \in DOMAIN choices : score[n] = best })], best >>

\* process.extractOne(query, choices, scorer=fuzz.token_sort_ratio): None for
\* no choices, else the best of the scored choices.  The query and the
\* choices go through full_process and the scorer then sorts their tokens,
\* which is what token_sort_ratio(query, choice) computes.
extractOne(query, choices) ==
    IF Len(choices) = 0 THEN None
    ELSE FirstBest(choices, [n \in DOMAIN choices |-> TokenSortScore(query, choices[n])])

\* DEFAULT_SETTINGS["column_mapping"]: << source column, ideal column >>
default_column_mapping ==
    << << "First Name", "First Name" >>, << "Last Name", "Last Name" >>,
       << "URL", "LinkedIn Contact Profile URL" >>, << "Email Address", "Email Address" >>,
       << "Company", "Company Name" >>, << "Position", "Job Title" >>,
       << "Department", "Job Function" >> >>

\* The source columns for which the interface shows a select box.
MappedColumns(source_df) ==
    { default_column_mapping[n][1] : n \in DOMAIN default_column_mapping }
        \cap { source_df.columns[n] : n \in DOMAIN source_df.columns }

\* Lines 251-277 of app.py: the column mappings that the select boxes can
\* give, each a function from source columns to columns of the ideal file.
ColumnMappings(ideal_df, source_df) ==
    [MappedColumns(source_df) -> { ideal_df.columns[n] : n \in DOMAIN ideal_df.columns }]

\* The column mapping when no select box is touched: the default column when
\* the ideal file has it, else the first column of the ideal file.
DefaultColumnMapping(ideal_df, source_df) ==
    [c \in MappedColumns(source_df) |->
        LET default_ideal_col ==
                default_column_mapping[CHOOSE n \in DOMAIN default_column_mapping :
                                          default_column_mapping[n][1] = c][2]
        IN  IF \E n \in DOMAIN ideal_df.columns : ideal_df.columns[n] = default_ideal_col
            THEN default_ideal_col
            ELSE ideal_df.columns[1]]

\* A file of one column.
OneColumnFile(col, cells) ==
    [columns |-> << col >>, rows |-> [n \in DOMAIN cells |-> [c \in {col} |-> cells[n]]]]

\* list(ideal_companies.values()): the normalized names of the ideal rows.
ideal_company_names(ideal_df) ==
    [n \in DOMAIN ideal_df.rows |->
        AppNormalizedCompany(ideal_df.rows[n][app_company_col(ideal_df)[1]])]

\* source_companies[i - 1]: the normalized name of the source row at
\* position i (counted from 1).
source_company_at(source_df, i) ==
    AppNormalizedCompany(source_df.rows[i][app_company_col(source_df)[1]])

\* Line 177 raises TypeError: extractOne returned None, which
\* "best_match, score = ..." cannot unpack.
match_companies_raises(ideal_df, source_df, i) ==
    /\ source_company_at(source_df, i) # ""
    /\ extractOne(source_company_at(source_df, i), ideal_company_names(ideal_df)) = None

\* The loop body without the comparison of line 179: every best choice is
\* appended.
AcceptAnyMatch(ideal_df, source_df, company_threshold, matches, i, ideal_companies, found) ==
    Append(matches,
           [ ideal_idx      |->
                 Min({ n \in DOMAIN ideal_companies : ideal_companies[n] = found[1] }) - 1,
             source_idx     |-> i - 1,
             ideal_company  |->
                 ideal_df.rows[Min({ n \in DOMAIN ideal_companies :
                                        ideal_companies[n] = found[1] })]
                              [app_company_col(ideal_df)[1]],
             source_company |-> source_df.rows[i][app_company_col(source_df)[1]],
             score          |-> found[2] ])

\* Lines 179-193: the matches after best_match, score = found was compared
\* with the threshold for the source row at position i.
AcceptMatch(ideal_df, source_df, company_threshold, matches, i, ideal_companies, found) ==
    IF found[2] >= company_threshold
    THEN Append(matches,
                [ ideal_idx      |->
                      Min({ n \in DOMAIN ideal_companies : ideal_companies[n] = found[1] }) - 1,
                  source_idx     |-> i - 1,
                  ideal_company  |->
                      ideal_df.rows[Min({ n \in DOMAIN ideal_companies :
                                             ideal_companies[n] = found[1] })]
                                   [app_company_col(ideal_df)[1]],
                  source_company |-> source_df.rows[i][app_company_col(source_df)[1]],
                  score          |-> found[2] ])
    ELSE matches

\* One iteration of "for source_idx, source_company in source_companies.items()"
\* that does not raise: the matches after the source row at position i.
match_companies_step(ideal_df, source_df, company_threshold, matches, i) ==
    IF source_company_at(source_df, i) = "" THEN matches
    ELSE AcceptMatch(ideal_df, source_df, company_threshold, matches, i,
                     ideal_company_names(ideal_df),
                     extractOne(source_company_at(source_df, i),
                                ideal_company_names(ideal_df)))

(***************************************************************************)
(* find_matches(input_file, target_file, thresholds) of leadmatcher5000.py *)
(* (the definition at line 714, which is the one the name is bound to).    *)
(* A dict is the sequence of its items [key, value] in insertion order.    *)
(***************************************************************************)

\* A put that adds an item without looking for the key
DictAppend(d, k, v) == Append(d, [key |-> k, value |-> v])

\* d[k] = v: a key that is there keeps its place, a new key goes last.
DictPut(d, k, v) ==
    IF \E n \in DOMAIN d : d[n].key = k
    THEN [n \in DOMAIN d |-> IF d[n].key = k THEN [key |-> k, value |-> v] ELSE d[n]]
    ELSE Append(d, [key |-> k, value |-> v])

RECURSIVE DictUpdate(_, _)
\* d.update(e)
DictUpdate(d, e) ==
    IF Len(e) = 0 THEN d
    ELSE DictUpdate(DictPut(d, e[1].key, e[1].value), Tail(e))

\* list(d.values())
Values(d) == [n \in DOMAIN d |-> d[n].value]

\* field_mapping: << source field, target field >> in the order of the dict
field_mapping == << << "First Name", "First Name" >>, << "Last Name", "Last Name" >>,
                    << "Email Address", "Email Address" >>, << "Position", "Job Title" >>,
                    << "Company", "Company" >>, << "URL", "LinkedIn" >>,
                    << "Connected On", "Connected On" >> >>

\* Lines 767-786 and 816: contact_data, with the flag person_match.
ContactData(source_row, person_match) ==
    [k \in { field_mapping[n][2] :
               n \in { m \in DOMAIN field_mapping : field_mapping[m][1] \in DOMAIN source_row } }
           \cup { "has_person_match" } |->
        IF k = "has_person_match" THEN person_match
        ELSE LET value == source_row[field_mapping[CHOOSE n \in DOMAIN field_mapping :
                                                       field_mapping[n][2] = k][1]]
             IN  IF IsNa(value) THEN "" ELSE Strip(PyStr(value))]

ContactDataCache ==
    [a \in AllSourceRows \X BOOLEAN |-> ContactData(a[1], a[2])] @@ << >>

\* contact_data, looked up
ContactDataOf(source_row, person_match) ==
    Lookup(ContactDataCache, << source_row, person_match >>,
           ContactData(source_row, person_match))

\* contact.get(field, '')
GetField(contact, field) == IF field \in DOMAIN contact THEN contact[field] ELSE ""

\* Lines 819 and 830: the key of a contact
ContactKey(contact) ==
    GetField(contact, "First Name") \o "-" \o GetField(contact, "Last Name")
        \o "-" \o GetField(contact, "Email Address")

\* "if a and b:" and the comparison of their similarity with a threshold
Similar(a, b, threshold) == a # "" /\ b # "" /\ TokenSortScore(a, b) >= threshold

\* Lines 792-797: the names are there and similar enough.
NameSignal(target_row, source_row, thresholds) ==
    Similar(NormalizedPerson(Text(FullName(source_row))),
            NormalizedPerson(Text(FullName(target_row))), thresholds.person_name)

\* str(cell).lower().strip() if not pd.isna(cell) else ''
EmailOf(cell) == IF IsNa(cell) THEN "" ELSE Strip(Lower(PyStr(cell)))

\* Lines 800-804: both rows have the same e-mail address.
EmailSignal(target_row, source_row) ==
    /\ "Email Address" \in DOMAIN source_row
    /\ "Email Address" \in DOMAIN target_row
    /\ EmailOf(source_row["Email Address"]) # ""
    /\ EmailOf(source_row["Email Address"]) = EmailOf(target_row["Email Address"])

\* Lines 807-813: the titles are there and similar enough.
TitleSignal(target_row, source_row, thresholds) ==
    /\ "Position" \in DOMAIN source_row
    /\ "Job Title" \in DOMAIN target_row
    /\ Similar(NormalizedTitle(source_row["Position"]),
               NormalizedTitle(target_row["Job Title"]), thresholds.title)

\* person_match without the check of the titles
NameOrEmailSignal(target_row, source_row, thresholds) ==
    \/ NameSignal(target_row, source_row, thresholds)
    \/ EmailSignal(target_row, source_row)

\* Lines 789-813: person_match
PersonSignal(target_row, source_row, thresholds) ==
    \/ NameSignal(target_row, source_row, thresholds)
    \/ EmailSignal(target_row, source_row)
    \/ TitleSignal(target_row, source_row, thresholds)

\* The company of the source row, as it is written, is the normalized name of
\* the target company
CompanyIsWritten(target_norm, source_row, thresholds) ==
    /\ RowCompany(source_row) # None
    /\ RowCompany(source_row)[1] = target_norm

\* Lines 749-766: the company of the source row is there and similar enough
\* to the one of the target row, whose normalized name is not empty.
CompanyMatches(target_norm, source_row, thresholds) ==
    /\ RowCompany(source_row) # None
    /\ RowCompany(source_row)[1] # ""
    /\ Similar(target_norm, NormalizedCompany(Text(RowCompany(source_row)[1])),
               thresholds.company_name)

\* contact_dict[contact_key] = contact_data
PutContact(contact_dict, contact_data) ==
    DictPut(contact_dict, ContactKey(contact_data), contact_data)

RECURSIVE ContactsOf(_, _, _, _, _, _)
\* Lines 747-820: contact_dict after the source rows from position n on.
ContactsOf(target_row, target_norm, source_rows, thresholds, n, contact_dict) ==
    IF n > Len(source_rows) THEN contact_dict
    ELSE ContactsOf(target_row, target_norm, source_rows, thresholds, n + 1,
                    IF CompanyMatches(target_norm, source_rows[n], thresholds)
                    THEN PutContact(contact_dict,
                                    ContactDataOf(source_rows[n],
                                                PersonSignal(target_row, source_rows[n],
                                                             thresholds)))
                    ELSE contact_dict)

RECURSIVE KeyedContacts(_, _)
\* Lines 828-831: existing_dict, to which the contacts from position 1 on are
\* added.
KeyedContacts(existing_dict, contacts) ==
    IF Len(contacts) = 0 THEN existing_dict
    ELSE KeyedContacts(PutContact(existing_dict, contacts[1]), Tail(contacts))

\* The entry of target_norm in company_matches, or None.
EntryOf(company_matches, target_norm) ==
    IF \E n \in DOMAIN company_matches : company_matches[n].key = target_norm
    THEN << company_matches[CHOOSE n \in DOMAIN company_matches :
                               company_matches[n].key = target_norm].value >>
    ELSE None

\* A display name that is the one of the latest target row
latest_company_name(target_company, best_company_name) == target_company

\* Line 835: the longer of the two names, the one kept when they are as long.
final_company_name(target_company, best_company_name) ==
    IF Len(target_company) > Len(best_company_name) THEN target_company
    ELSE best_company_name

\* An entry is stored also when no contact was collected
StoreEvenEmpty(company_matches, target_norm, target_company, contact_dict, existing) ==
    DictPut(company_matches, target_norm,
            << target_norm, target_company, Values(contact_dict) >>)

\* Lines 822-838: company_matches after the contacts of a target row are
\* stored; existing is the entry of target_norm, or None.
StoreContacts(company_matches, target_norm, target_company, contact_dict, existing) ==
    IF Len(contact_dict) = 0 THEN company_matches
    ELSE IF existing # None
    THEN DictPut(company_matches, target_norm,
                 << target_norm,
                    final_company_name(target_company, existing[1][2]),
                    Values(DictUpdate(KeyedContacts(<< >>, existing[1][3]), contact_dict)) >>)
    ELSE DictPut(company_matches, target_norm,
                 << target_norm, target_company, Values(contact_dict) >>)

\* Lines 739-838: company_matches after a target row whose company is
\* target_company, normalized to target_norm.
StoreTarget(company_matches, target_row, target_company, target_norm, source_rows, thresholds) ==
    IF target_company = "" \/ target_norm = "" THEN company_matches
    ELSE StoreContacts(company_matches, target_norm, target_company,
                       ContactsOf(target_row, target_norm, source_rows, thresholds, 1, << >>),
                       EntryOf(company_matches, target_norm))

\* Lines 732-838: company_matches after one target row.
TargetStep(company_matches, target_row, source_rows, thresholds) ==
    IF RowCompany(target_row) = None THEN company_matches
    ELSE StoreTarget(company_matches, target_row, RowCompany(target_row)[1],
                     NormalizedCompany(Text(RowCompany(target_row)[1])),
                     source_rows, thresholds)

RECURSIVE InsertByName(_, _)
\* entry put behind every entry whose name, as it is written, is not greater
InsertByCase(sorted, entry) ==
    LET k == Cardinality({ n \in DOMAIN sorted : ~StrLess(entry[2], sorted[n][2]) })
    IN  SubSeq(sorted, 1, k) \o << entry >> \o SubSeq(sorted, k + 1, Len(sorted))

\* entry put behind every entry whose lower-cased name is not greater
InsertByName(sorted, entry) ==
    IF Len(sorted) = 0 THEN << entry >>
    ELSE IF StrLess(Lower(entry[2]), Lower(sorted[1][2])) THEN << entry >> \o sorted
    ELSE << sorted[1] >> \o InsertByName(Tail(sorted), entry)

RECURSIVE SortedByName(_, _)
\* Line 841: sorted(company_matches.values(), key=lambda x: x[1].lower())
SortedByName(entries, acc) ==
    IF Len(entries) = 0 THEN acc
    ELSE SortedByName(Tail(entries), InsertByName(acc, entries[1]))

RECURSIVE AllTargets(_, _, _, _, _)
\* The loop of line 732 from the target row at position n on.
AllTargets(company_matches, target_rows, source_rows, thresholds, n) ==
    IF n > Len(target_rows) THEN company_matches
    ELSE AllTargets(TargetStep(company_matches, target_rows[n], source_rows, thresholds),
                    target_rows, source_rows, thresholds, n + 1)

\* find_matches(input_file, target_file, thresholds) for files that are read
\* as target_rows and source_rows
find_matches(source_rows, target_rows, thresholds) ==
    SortedByName(Values(AllTargets(<< >>, target_rows, source_rows, thresholds, 1)), << >>)

(***************************************************************************)
(* The person matcher: get_person_key and find_person_matches of           *)
(* leadmatcher5000.py.  A contact is a dict from field names to cells.     *)
(***************************************************************************)

\* safe_get_column(row, column_name) without a column mapping: the lower-cased
\* str of the value, '' for a field the row does not have
safe_get_column(row, column_name) == Lower(PyStr(GetCell(row, column_name)))

\* Lines 400-417: << first_name, last_name >> after the "LastName, FirstName"
\* and the "First Middle Last" handling of the first name field.
SplitFirstName(first_name, last_name) ==
    IF Contains(first_name, ",")
    THEN IF FindChars(first_name, FindChars(first_name, 1, {","}) + 1, {","})
                > Len(first_name)
         THEN << Strip(SubSeq(first_name, FindChars(first_name, 1, {","}) + 1,
                              Len(first_name))),
                 Strip(SubSeq(first_name, 1, FindChars(first_name, 1, {","}) - 1)) >>
         ELSE << first_name, last_name >>
    ELSE IF Contains(first_name, " ") /\ Len(Split(first_name)) >= 2
    THEN IF Contains(last_name, Split(first_name)[2])
         THEN << Split(first_name)[1], last_name >>
         ELSE << Split(first_name)[1],
                 Join(Tail(Split(first_name)), " ") \o " " \o last_name >>
    ELSE << first_name, last_name >>

\* The alternatives of r'^(info|contact|admin|support|sales)', in their order.
email_prefixes == << "info", "contact", "admin", "support", "sales" >>

\* re.sub(r'^(info|contact|admin|support|sales)', '', s)
RemoveEmailPrefix(s) ==
    IF \E k \in 1..Len(email_prefixes) : StartsWithAt(s, 1, email_prefixes[k])
    THEN SubSeq(s,
                Len(email_prefixes[Min({ k \in 1..Len(email_prefixes) :
                                           StartsWithAt(s, 1, email_prefixes[k]) })]) + 1,
                Len(s))
    ELSE s

RECURSIVE RemoveDigits(_)
\* re.sub(r'\d+', '', s), by halves
RemoveDigits(s) ==
    IF Len(s) = 0 THEN ""
    ELSE IF Len(s) = 1 THEN (IF s \in CharsOf(DigitChars) THEN "" ELSE s)
    ELSE LET m == Len(s) \div 2
         IN  RemoveDigits(SubSeq(s, 1, m)) \o RemoveDigits(SubSeq(s, m + 1, Len(s)))

\* Lines 420-428: the part of the address before the first '@' without role
\* prefix, digits and special characters; '' for a text without '@'
EmailName(email) ==
    IF Contains(email, "@")
    THEN KeepChars(RemoveDigits(RemoveEmailPrefix(
                       SubSeq(email, 1, FindChars(email, 1, {"@"}) - 1))), {})
    ELSE ""

\* Lines 431-443: the key of a row whose names are split into
\* names = << first_name, last_name >>
PersonKey(row, names) ==
    [last_name  |-> normalize_person_name(Text(names[2])),
     first_name |-> normalize_person_name(Text(names[1])),
     job_title  |-> normalize_job_title(Text(safe_get_column(row, "Position"))),
     linkedin   |-> Strip(Lower(safe_get_column(row, "URL"))),
     email_name |-> EmailName(safe_get_column(row, "Email Address"))]

\* get_person_key(row) without a column mapping
get_person_key(row) ==
    PersonKey(row, SplitFirstName(safe_get_column(row, "First Name"),
                                  safe_get_column(row, "Last Name")))

\* str(key): what fuzzywuzzy compares when it is handed the dict of
\* get_person_key (the values hold no quote and no backslash)
KeyStr(key) ==
    "{'last_name': '" \o key.last_name \o "', 'first_name': '" \o key.first_name
        \o "', 'job_title': '" \o key.job_title \o "', 'linkedin': '" \o key.linkedin
        \o "', 'email_name': '" \o key.email_name \o "'}"

\* The contact dict with the fields find_person_matches reads ('company',
\* 'first_name', 'last_name', 'email') and those get_person_key reads.
PersonContact(company, first_name, last_name, email, position) ==
    ("company" :> company) @@ ("first_name" :> first_name) @@ ("last_name" :> last_name)
        @@ ("email" :> email) @@ ("First Name" :> first_name) @@ ("Last Name" :> last_name)
        @@ ("Email Address" :> email) @@ ("Position" :> position)

\* The longest lists find_person_matches is called with.
MaxPersonInputs == 2

MaxPersonTargets == 2

\* The contacts find_person_matches is called with.
InputContacts ==
    { PersonContact(Text("Acme"), Text("Jane"), Text("Doe"), Text("jane@acme.com"), Text("")),
      PersonContact(Text("Acme"), Text("Bill"), Text("Smith"), Text(""), Text("")),
      PersonContact(Text("Acme"), NaN, Text("Doe"), Text("jane@acme.com"), Text("")) }

TargetContacts ==
    { PersonContact(Text("ACME"), Text("Jane"), Text("Doe"), Text("JANE@acme.com"), Text("")),
      PersonContact(Text("Acme"), Text("William"), Text("Smith"), Text(""), Text("")),
      PersonContact(Text("Acme"), Text("Mary"), Text("Major"), Text("Jane@Acme.com"), Text("CEO")),
      PersonContact(Text("Globex"), Text("Jane"), Text("Doe"), Text("jane@acme.com"), Text("")),
      PersonContact(Text("Acme Widgets"), Text("Jane"), Text("Doe"), Text(""), Text("")) }

\* thresholds['person_name'] takes every value from 0 to 100.
PersonThresholds == { [DefaultThresholds EXCEPT !.person_name = t] : t \in 0..100 }

\* The thresholds find_person_matches is called with when it is given more
\* than one input contact or more than one target contact.
ListThresholds == { t \in PersonThresholds : t.person_name \in { 0, 85, 100 } }

\* str(get_person_key(contact)) of the contacts above, as a table
KeyStrCache ==
    [c \in InputContacts \cup TargetContacts |-> KeyStr(get_person_key(c))] @@ << >>

\* str(get_person_key(contact)), looked up
KeyStrOf(contact) == Lookup(KeyStrCache, contact, KeyStr(get_person_key(contact)))

\* normalize_company_name of the companies of the contacts above, as a table
ContactCompanyCache ==
    [v \in { c["company"] : c \in InputContacts \cup TargetContacts } |->
        normalize_company_name(v)] @@ << >>

\* normalize_company_name(contact.get('company', '')), looked up
ContactCompany(contact) ==
    Lookup(ContactCompanyCache, GetCell(contact, "company"),
           normalize_company_name(GetCell(contact, "company")))

\* "first_name last_name" of the contacts above whose first name is a text
NickKeys(contacts) ==
    { Lower(c["first_name"][1]) \o " " \o PyStr(c["last_name"]) :
        c \in { d \in contacts : ~IsNa(d["first_name"]) } }

\* The three ratios of the strings the contacts above are compared by: their
\* normalized companies, the str of their keys and their names.
BestRatioCache ==
    [p \in ({ ContactCompany(c) : c \in InputContacts }
                \X { ContactCompany(c) : c \in TargetContacts })
           \cup ({ KeyStrCache[c] : c \in InputContacts }
                     \X { KeyStrCache[c] : c \in TargetContacts })
           \cup (NickKeys(InputContacts) \X NickKeys(TargetContacts))
        |-> BestRatio(p[1], p[2])] @@ << >>

\* max(fuzz.token_sort_ratio, fuzz.token_set_ratio, fuzz.partial_ratio)
BestRatioOf(s1, s2) == Lookup(BestRatioCache, << s1, s2 >>, BestRatio(s1, s2))

\* Lines 461-471: both normalized companies are non-empty and the best of
\* their three ratios reaches the company threshold.
CompanyGate(input_company, target_company, thresholds) ==
    /\ input_company # ""
    /\ target_company # ""
    /\ BestRatioOf(input_company, target_company) >= thresholds.company_name

\* Lines 474-478: the best of the three ratios of the two keys, which
\* fuzzywuzzy compares as their str
KeyScore(input_contact, target_contact) ==
    BestRatioOf(KeyStrOf(input_contact), KeyStrOf(target_contact))

\* Lines 486-487: the names tried for a first name
Nicknames(first, formal, nicknames) == IF first = formal THEN nicknames ELSE << first >>

\* Lines 490-499: the best score of the pairs "nickname last_name"
NickScore(input_nicknames, input_last, target_nicknames, target_last) ==
    Max({ BestRatioOf(input_nicknames[i] \o " " \o input_last,
                      target_nicknames[t] \o " " \o target_last)
            : i \in DOMAIN input_nicknames, t \in DOMAIN target_nicknames })

\* Lines 481-499: name_score after the nickname check
WithNicknames(name_score, input_contact, target_contact, thresholds) ==
    IF name_score < thresholds.person_name
    THEN Max({ name_score,
               NickScore(Nicknames(Lower(GetCell(input_contact, "first_name")[1]),
                                   "william", << "will", "bill", "billy" >>),
                         PyStr(GetCell(input_contact, "last_name")),
                         Nicknames(Lower(GetCell(target_contact, "first_name")[1]),
                                   "robert", << "rob", "bob", "bobby" >>),
                         PyStr(GetCell(target_contact, "last_name"))) })
    ELSE name_score

\* bool(value) of a cell: false of the empty text only
Truthy(value) == IsNa(value) \/ value[1] # ""

\* Lines 502-510: name_score after the email check
WithEmail(name_score, input_email, target_email, thresholds) ==
    IF /\ Truthy(input_email)
       /\ Truthy(target_email)
       /\ ratio(Lower(input_email[1]), Lower(target_email[1])) = 100
    THEN Max({ name_score, thresholds.person_name + 10 })
    ELSE name_score

\* The comparison ends in an AttributeError: .lower() of a cell that is not a
\* text, at lines 482-483 or at line 506.
ComparisonRaises(name_score, input_contact, target_contact, thresholds) ==
    \/ /\ name_score < thresholds.person_name
       /\ \/ IsNa(GetCell(input_contact, "first_name"))
          \/ IsNa(GetCell(target_contact, "first_name"))
    \/ /\ Truthy(GetCell(input_contact, "email"))
       /\ Truthy(GetCell(target_contact, "email"))
       /\ \/ IsNa(GetCell(input_contact, "email"))
          \/ IsNa(GetCell(target_contact, "email"))

\* A test that a score equal to the best one so far passes too
IsNotWorse(name_score, person_threshold, best_score) ==
    name_score >= person_threshold /\ name_score >= best_score

\* A test that a score equal to the threshold does not pass
IsStrictlyBetter(name_score, person_threshold, best_score) ==
    name_score > person_threshold /\ name_score > best_score

\* Line 513: the test a comparison passes to become the best match
IsBetter(name_score, person_threshold, best_score) ==
    name_score >= person_threshold /\ name_score > best_score

\* Lines 513-519: the inner loop after a comparison that ended with name_score
UpdateBest(input_contact, target_contact, thresholds, best, name_score) ==
    IF IsBetter(name_score, thresholds.person_name, best.score)
    THEN [pc |-> "targets", name_score |-> << name_score >>, score |-> name_score,
          match |-> << [input_contact |-> input_contact,
                        target_contact |-> target_contact,
                        score |-> name_score] >>]
    ELSE [pc |-> "targets", name_score |-> << name_score >>, score |-> best.score,
          match |-> best.match]

\* Lines 474-519 for two contacts whose keys have the score name_score
CompareNames(input_contact, target_contact, thresholds, best, name_score) ==
    IF ComparisonRaises(name_score, input_contact, target_contact, thresholds)
    THEN [pc |-> "raised", name_score |-> None, score |-> best.score, match |-> best.match]
    ELSE UpdateBest(input_contact, target_contact, thresholds, best,
                    WithEmail(WithNicknames(name_score, input_contact, target_contact,
                                            thresholds),
                              GetCell(input_contact, "email"),
                              GetCell(target_contact, "email"), thresholds))

\* Lines 456-519, one round of the inner loop: best = [score, match] before
\* it; pc, name_score, score and match after it.
compare_target(input_contact, target_contact, thresholds, best) ==
    IF CompanyGate(ContactCompany(input_contact), ContactCompany(target_contact),
                   thresholds)
    THEN CompareNames(input_contact, target_contact, thresholds, best,
                      KeyScore(input_contact, target_contact))
    ELSE [pc |-> "targets", name_score |-> None, score |-> best.score, match |-> best.match]

(***************************************************************************)
(* The state                                                               *)
(***************************************************************************)

VARIABLES
    n_name,        \* normalizer: the value normalize_company_name is called with
    n_result,      \* normalizer: None, or << the name it returned >>
    n_again,       \* normalizer: None, or << the result normalized once more >>
    n_person,      \* normalizer: None, or << what normalize_person_name returned >>
    n_title,       \* normalizer: None, or << what normalize_job_title returned >>
    mc_ideal,      \* match_companies: ideal_df
    mc_source,     \* match_companies: source_df
    mc_threshold,  \* match_companies: company_threshold
    mc_pc,         \* match_companies: "idle", "call", "loop", "done", "raised"
    mc_i,          \* match_companies: position of the next source row (from 1)
    mc_matches,    \* match_companies: matches
    mc_column_mapping, \* match_companies: column_mapping
    fm_target,     \* find_matches: target_contacts, None when the file is not read
    fm_source,     \* find_matches: input_contacts, None when the file is not read
    fm_thresholds, \* find_matches: thresholds
    fm_pc,         \* find_matches: "idle", "call", "loop", "done"
    fm_t,          \* find_matches: position of the next target row (from 1)
    fm_company_matches,  \* find_matches: company_matches
    fm_result,     \* find_matches: the list returned
    fp_input,      \* find_person_matches: input_contacts
    fp_target,     \* find_person_matches: target_contacts
    fp_thresholds, \* find_person_matches: thresholds
    fp_pc,         \* find_person_matches: "idle", "inputs", "targets", "returned", "raised"
    fp_i,          \* find_person_matches: position of input_contact (from 1)
    fp_j,          \* find_person_matches: position of target_contact (from 1)
    fp_best_score, \* find_person_matches: best_score
    fp_best_match, \* find_person_matches: best_match, None or << the match >>
    fp_name_score, \* find_person_matches: None, or << name_score >> of the last
                   \* comparison that came to line 513
    fp_matches,    \* find_person_matches: matches
    m_files,       \* main: the CSV files of the current directory
    m_settings,    \* main: settings, a dict from setting names to values
    m_pc,          \* main: "idle", "display", "menu", "exited", "raised"
    m_error,       \* main: None, or << the exception that ended main >>
    m_run          \* main: None, or << the thresholds find_matches was last given >>

normVars == << n_name, n_result, n_again, n_person, n_title >>

mcVars == << mc_ideal, mc_source, mc_threshold, mc_pc, mc_i, mc_matches, mc_column_mapping >>

fmVars == << fm_target, fm_source, fm_thresholds, fm_pc, fm_t, fm_company_matches,
            fm_result >>

fpVars == << fp_input, fp_target, fp_thresholds, fp_pc, fp_i, fp_j, fp_best_score,
            fp_best_match, fp_name_score, fp_matches >>

mainVars == << m_files, m_settings, m_pc, m_error, m_run >>

vars == << normVars, mcVars, fmVars, fpVars, mainVars >>

\* main is not run.
MainIdle ==
    m_files = {} /\ m_settings = << >> /\ m_pc = "idle" /\ m_error = None /\ m_run = None

\* A file without columns or rows.
NoFile == [columns |-> << >>, rows |-> << >>]

\* The normalizer is not called.
NormIdle ==
    n_name = NaN /\ n_result = None /\ n_again = None /\ n_person = None /\ n_title = None

\* find_person_matches is not called.
PersonIdle ==
    /\ fp_input = << >>
    /\ fp_target = << >>
    /\ fp_thresholds = DefaultThresholds
    /\ fp_pc = "idle"
    /\ fp_i = 0
    /\ fp_j = 0
    /\ fp_best_score = 0
    /\ fp_best_match = None
    /\ fp_name_score = None
    /\ fp_matches = << >>

\* match_companies is not called.
CompanyIdle ==
    /\ mc_ideal = NoFile
    /\ mc_source = NoFile
    /\ mc_threshold = 0
    /\ mc_pc = "idle"
    /\ mc_i = 0
    /\ mc_matches = << >>
    /\ mc_column_mapping = << >>

\* find_matches is not called.
RosterIdle ==
    /\ fm_target = None
    /\ fm_source = None
    /\ fm_thresholds = DefaultThresholds
    /\ fm_pc = "idle"
    /\ fm_t = 0
    /\ fm_company_matches = << >>
    /\ fm_result = << >>

(***************************************************************************)
(* The normalizer, called on a name and then on its own result             *)
(***************************************************************************)

InitNorm ==
    /\ n_name \in NormInputs
    /\ n_result = None
    /\ n_again = None
    /\ n_person = None
    /\ n_title = None
    /\ CompanyIdle
    /\ RosterIdle
    /\ PersonIdle
    /\ MainIdle

\* normalize_company_name(name)
Normalize ==
    /\ n_result = None
    /\ n_result' = << normalize_company_name(n_name) >>
    /\ UNCHANGED << n_name, n_again, n_person, n_title, mcVars, fmVars, fpVars, mainVars >>

\* normalize_company_name(normalize_company_name(name))
NormalizeAgain ==
    /\ n_result # None
    /\ n_again = None
    /\ n_again' = << normalize_company_name(Text(n_result[1])) >>
    /\ UNCHANGED << n_name, n_result, n_person, n_title, mcVars, fmVars, fpVars, mainVars >>

NextNorm == Normalize \/ NormalizeAgain

SpecNorm == InitNorm /\ [][NextNorm]_vars

(***************************************************************************)
(* The three normalizers, each called on the same value                    *)
(***************************************************************************)

InitFields ==
    /\ n_name \in FieldInputs
    /\ n_result = None
    /\ n_again = None
    /\ n_person = None
    /\ n_title = None
    /\ CompanyIdle
    /\ RosterIdle
    /\ PersonIdle
    /\ MainIdle

\* normalize_person_name(name)
NormalizePerson ==
    /\ n_person = None
    /\ n_person' = << normalize_person_name(n_name) >>
    /\ UNCHANGED << n_name, n_result, n_again, n_title, mcVars, fmVars, fpVars, mainVars >>

\* normalize_job_title(title)
NormalizeTitle ==
    /\ n_title = None
    /\ n_title' = << normalize_job_title(n_name) >>
    /\ UNCHANGED << n_name, n_result, n_again, n_person, mcVars, fmVars, fpVars, mainVars >>

NextFields == Normalize \/ NormalizePerson \/ NormalizeTitle

SpecFields == InitFields /\ [][NextFields]_vars

(***************************************************************************)
(* Properties of the normalizer                                            *)
(***************************************************************************)

\* C3: normalize_company_name is idempotent: normalizing a result once more
\* returns that result unchanged, for every input name.
C3_Idempotent == n_again # None => n_again[1] = n_result[1]

\* The three spellings of the QCR special case.
QcrNames == { "QCR Holdings Inc", "QCR Holdings", "QCR Holdings Incorporated" }

\* C4: "QCR Holdings Inc", "QCR Holdings" and "QCR Holdings Incorporated"
\* all normalize to exactly "qcr holdings".
C4_QcrHoldings ==
    (n_result # None /\ n_name \in { Text(x) : x \in QcrNames })
        => n_result[1] = "qcr holdings"

\* The pairs of names that differ only by a suffix: << with, without >>.
SuffixPairs == { << "Acme Corporation", "ACME" >>, << "Acme Corp", "ACME" >>,
                 << "Acme Corporation", "Acme Corp" >>, << "Globex Inc", "Globex" >> }

\* C5: both members of each suffix pair normalize to one identical string,
\* so that their token-sort similarity reaches the company_name threshold 85.
C5_SuffixPairsCanonical ==
    \A p \in SuffixPairs :
        (n_result # None /\ n_name = Text(p[1]))
            => /\ n_result[1] = normalize_company_name(Text(p[2]))
               /\ token_sort_ratio(n_result[1], normalize_company_name(Text(p[2]))) >= 85

\* The name contains an education keyword, in any case of its letters.
HasEduKeyword(v) ==
    \E n \in DOMAIN edu_keywords : Contains(Lower(PyStr(v)), edu_keywords[n])

\* The name contains "qcr", in any case of its letters.
HasQcr(v) == Contains(Lower(PyStr(v)), "qcr")

\* The words of a text.
WordSet(s) == { Split(s)[n] : n \in DOMAIN Split(s) }

\* The words of the abbreviation-expanded name that are corporate suffixes.
SuffixWords(v) ==
    { w \in WordSet(ExpandName(CompanyCleaned(v))) :
        \E n \in DOMAIN suffixes : suffixes[n] = w }

\* C6: a name that contains an education keyword and no "qcr" keeps every
\* corporate suffix word of its abbreviation-expanded form in its normalized
\* form.
C6_EduKeepsSuffixes ==
    (n_result # None /\ ~IsNa(n_name) /\ HasEduKeyword(n_name) /\ ~HasQcr(n_name))
        => SuffixWords(n_name) \subseteq WordSet(n_result[1])

\* C6 happens: an education name with a suffix word has been normalized.
C6_Witness ==
    /\ n_result # None
    /\ ~IsNa(n_name) /\ HasEduKeyword(n_name) /\ ~HasQcr(n_name)
    /\ SuffixWords(n_name) # {}
    /\ "co" \in WordSet(n_result[1])

(***************************************************************************)
(* match_companies(ideal_df, source_df, company_threshold, column_mapping) *)
(***************************************************************************)

InitCompany ==
    /\ \E col \in { "Company", "Organization" } :
       \E cells \in { << >> } \cup SeqsUpTo(IdealCells, MaxIdealRows) :
          mc_ideal = OneColumnFile(col, cells)
    /\ \E col \in { "Company", "Company Name" } :
       \E cells \in { << >> } \cup SeqsUpTo(SourceCells, MaxSourceRows) :
          mc_source = OneColumnFile(col, cells)
    /\ mc_threshold \in CompanyThresholds
    /\ mc_column_mapping \in ColumnMappings(mc_ideal, mc_source)
    /\ mc_pc = "call"
    /\ mc_i = 0
    /\ mc_matches = << >>
    /\ NormIdle
    /\ RosterIdle
    /\ PersonIdle
    /\ MainIdle

\* Lines 144-166: the company columns are looked for; without one of them
\* the function returns [].
FindCompanyColumns ==
    /\ mc_pc = "call"
    /\ IF app_company_col(mc_source) = None \/ app_company_col(mc_ideal) = None
       THEN mc_pc' = "done" /\ mc_i' = mc_i
       ELSE mc_pc' = "loop" /\ mc_i' = 1
    /\ UNCHANGED << mc_ideal, mc_source, mc_threshold, mc_matches, mc_column_mapping,
                    normVars, fmVars, fpVars, mainVars >>

\* Lines 172-193: one source row.
MatchSourceRow ==
    /\ mc_pc = "loop"
    /\ mc_i <= Len(mc_source.rows)
    /\ IF match_companies_raises(mc_ideal, mc_source, mc_i)
       THEN mc_pc' = "raised" /\ UNCHANGED << mc_i, mc_matches >>
       ELSE /\ mc_pc' = "loop"
            /\ mc_i' = mc_i + 1
            /\ mc_matches' = match_companies_step(mc_ideal, mc_source, mc_threshold,
                                                  mc_matches, mc_i)
    /\ UNCHANGED << mc_ideal, mc_source, mc_threshold, mc_column_mapping,
                    normVars, fmVars, fpVars, mainVars >>

\* Line 195: return matches
ReturnMatches ==
    /\ mc_pc = "loop"
    /\ mc_i > Len(mc_source.rows)
    /\ mc_pc' = "done"
    /\ UNCHANGED << mc_ideal, mc_source, mc_threshold, mc_i, mc_matches, mc_column_mapping,
                    normVars, fmVars, fpVars, mainVars >>

NextCompany == FindCompanyColumns \/ MatchSourceRow \/ ReturnMatches

SpecCompany == InitCompany /\ [][NextCompany]_vars

(***************************************************************************)
(* Properties of match_companies                                           *)
(***************************************************************************)

\* The highest token-sort similarity of a normalized source name with the
\* normalized names of the ideal rows.
BestScore(source_company) ==
    Max({ TokenSortScore(source_company, AppNormalizedCompany(mc_ideal.rows[n]
                                             [app_company_col(mc_ideal)[1]])) :
            n \in DOMAIN mc_ideal.rows })

\* The positions of the ideal rows whose normalized names reach score
\* against a normalized source name.
RowsScoring(source_company, score) ==
    { n \in DOMAIN mc_ideal.rows :
        TokenSortScore(source_company, AppNormalizedCompany(mc_ideal.rows[n]
                                           [app_company_col(mc_ideal)[1]])) = score }

\* C7: the matches of one run hold at most one match per normalized
\* source-company string.
C7_OneMatchPerSource ==
    \A j, k \in DOMAIN mc_matches :
        j # k => AppNormalizedCompany(mc_matches[j].source_company)
                     # AppNormalizedCompany(mc_matches[k].source_company)

\* C8: every emitted match has a score that reaches the threshold of the call
\* and is the highest similarity of its source name with any ideal name, and
\* a source row whose highest similarity is below the threshold has no match
\* when the function returns.
C8_ScoreAtLeastThreshold ==
    /\ \A k \in DOMAIN mc_matches :
          /\ mc_matches[k].score >= mc_threshold
          /\ mc_matches[k].score =
                 BestScore(AppNormalizedCompany(mc_matches[k].source_company))
    /\ (mc_pc = "done" /\ mc_i > 0)
          => \A i \in DOMAIN mc_source.rows :
                (/\ source_company_at(mc_source, i) # ""
                 /\ BestScore(source_company_at(mc_source, i)) < mc_threshold)
                    => ~ \E k \in DOMAIN mc_matches : mc_matches[k].source_idx = i - 1

\* C8 happens: the function returned a match for one source row and none for
\* another, named row whose highest similarity is below the threshold.
C8_Witness ==
    /\ mc_pc = "done" /\ mc_i > 0
    /\ Len(mc_matches) = 1
    /\ \E i \in DOMAIN mc_source.rows :
          /\ source_company_at(mc_source, i) # ""
          /\ BestScore(source_company_at(mc_source, i)) < mc_threshold
          /\ BestScore(source_company_at(mc_source, i)) > 0

\* C9: a match names the first ideal row that reaches the highest similarity
\* with its source name, by position and by the name the row shows.
C9_FirstOccurrenceWins ==
    \A k \in DOMAIN mc_matches :
        /\ mc_matches[k].ideal_idx + 1 =
               Min(RowsScoring(AppNormalizedCompany(mc_matches[k].source_company),
                               mc_matches[k].score))
        /\ mc_matches[k].ideal_company =
               mc_ideal.rows[mc_matches[k].ideal_idx + 1][app_company_col(mc_ideal)[1]]

\* C9 happens: a match whose score two ideal rows with different names reach.
C9_Witness ==
    \E k \in DOMAIN mc_matches :
        \E p, q \in RowsScoring(AppNormalizedCompany(mc_matches[k].source_company),
                                mc_matches[k].score) :
            /\ p < q
            /\ mc_ideal.rows[p] # mc_ideal.rows[q]
            /\ mc_matches[k].ideal_idx = p - 1

(***************************************************************************)
(* find_matches, one target row at a time                                  *)
(***************************************************************************)

\* A file that try_read_csv has read: its rows.
FileOf(rows) == [rows |-> rows]

InitRoster ==
    /\ fm_target \in { None } \cup
           { FileOf(rows) : rows \in { << >> } \cup SeqsUpTo(TargetRows, MaxTargetContacts) }
    /\ fm_source \in { None } \cup
           { FileOf(rows) : rows \in { << >> } \cup SeqsUpTo(SourceRows, MaxSourceContacts) }
    /\ (IF fm_target = None THEN 0 ELSE Len(fm_target.rows))
          + (IF fm_source = None THEN 0 ELSE Len(fm_source.rows)) <= MaxRosterRows
    /\ fm_thresholds \in RosterThresholds
    /\ fm_pc = "call"
    /\ fm_t = 0
    /\ fm_company_matches = << >>
    /\ fm_result = << >>
    /\ NormIdle
    /\ CompanyIdle
    /\ PersonIdle
    /\ MainIdle

\* Lines 721-729: the files are read; without one of them the function
\* returns [].
ReadFiles ==
    /\ fm_pc = "call"
    /\ IF fm_target = None \/ fm_source = None
       THEN fm_pc' = "done" /\ fm_t' = fm_t
       ELSE fm_pc' = "loop" /\ fm_t' = 1
    /\ UNCHANGED << fm_target, fm_source, fm_thresholds, fm_company_matches, fm_result,
                    normVars, mcVars, fpVars, mainVars >>

\* Lines 732-838: one target row.
ProcessTargetRow ==
    /\ fm_pc = "loop"
    /\ fm_t <= Len(fm_target.rows)
    /\ fm_company_matches' =
           TargetStep(fm_company_matches, fm_target.rows[fm_t], fm_source.rows, fm_thresholds)
    /\ fm_t' = fm_t + 1
    /\ UNCHANGED << fm_target, fm_source, fm_thresholds, fm_pc, fm_result, normVars, mcVars, fpVars, mainVars >>

\* Line 841: the entries are sorted and returned.
ReturnRoster ==
    /\ fm_pc = "loop"
    /\ fm_t > Len(fm_target.rows)
    /\ fm_result' = SortedByName(Values(fm_company_matches), << >>)
    /\ fm_pc' = "done"
    /\ UNCHANGED << fm_target, fm_source, fm_thresholds, fm_t, fm_company_matches,
                    normVars, mcVars, fpVars, mainVars >>

NextRoster == ReadFiles \/ ProcessTargetRow \/ ReturnRoster

SpecRoster == InitRoster /\ [][NextRoster]_vars

(***************************************************************************)
(* main() of leadmatcher5000.py: the menu loop over the settings.  A       *)
(* setting is a file name (a text, or None when select_file found no CSV   *)
(* file), the thresholds, or the column mapping (a set of pairs            *)
(* << source column, target column >>).                                    *)
(***************************************************************************)

\* The CSV files that the current directory can hold.
CsvFiles == { "input.csv", "target.csv" }

\* The company_name thresholds that the user enters in modify_thresholds.
EnteredThresholds == { 80, 90 }

\* The column mappings that configure_column_mapping can leave.
EnteredMappings == { {}, { << "Company", "Company" >> } }

\* settings[k] = v
SetItem(settings, k, v) ==
    [x \in DOMAIN settings \cup { k } |-> IF x = k THEN v ELSE settings[x]]

\* The settings that load_settings finds in the file of an earlier session.
SavedSettings ==
    { SetItem(SetItem(SetItem(<< >>, "input_file", Text("input.csv")),
                      "target_file", Text("target.csv")),
              "column_mapping", { << "Company", "Company" >> }),
      SetItem(SetItem(SetItem(SetItem(<< >>, "input_file", Text("input.csv")),
                              "target_file", Text("target.csv")),
                      "column_mapping", { << "Company", "Company" >> }),
              "thresholds", DefaultThresholds) }

\* not settings.get(field), for a file name
NoFileSet(settings, field) ==
    field \notin DOMAIN settings \/ settings[field] = None \/ settings[field] = Text("")

\* not settings.get('column_mapping')
NoMappingSet(settings) ==
    "column_mapping" \notin DOMAIN settings \/ settings["column_mapping"] = {}

\* settings.get('thresholds', {...}) of display_current_settings and of
\* modify_thresholds
ThresholdsOrDefault(settings) ==
    IF "thresholds" \in DOMAIN settings THEN settings["thresholds"] ELSE DefaultThresholds

\* display_current_settings raises AttributeError: settings.get(field, 'Not
\* set') is None, which has no ljust.
DisplayRaises(settings) ==
    \E field \in { "input_file", "target_file" } :
        field \in DOMAIN settings /\ settings[field] = None

\* validate_settings(settings)
validate_settings(settings, files) ==
    /\ ~NoFileSet(settings, "input_file")
    /\ ~NoFileSet(settings, "target_file")
    /\ ~NoMappingSet(settings)
    /\ settings["input_file"][1] \in files
    /\ settings["target_file"][1] \in files

InitMain ==
    /\ m_files \in SUBSET CsvFiles
    /\ m_settings \in { << >> } \cup SavedSettings
    /\ m_pc = "display"
    /\ m_error = None
    /\ m_run = None
    /\ NormIdle
    /\ CompanyIdle
    /\ RosterIdle
    /\ PersonIdle

\* Line 1074: display_current_settings(settings), then the menu
DisplaySettings ==
    /\ m_pc = "display"
    /\ IF DisplayRaises(m_settings)
       THEN m_pc' = "raised" /\ m_error' = << "AttributeError" >>
       ELSE m_pc' = "menu" /\ m_error' = m_error
    /\ UNCHANGED << m_files, m_settings, m_run, normVars, mcVars, fmVars, fpVars >>

\* select_file(prompt): None without CSV files, else one of them
SelectedFiles(files) == IF files = {} THEN { None } ELSE { Text(f) : f \in files }

\* Choices 1 and 2: the input file or the target file is selected.
SelectFile ==
    /\ m_pc = "menu"
    /\ \E field \in { "input_file", "target_file" } : \E file \in SelectedFiles(m_files) :
          m_settings' = SetItem(m_settings, field, file)
    /\ m_pc' = "display"
    /\ UNCHANGED << m_files, m_error, m_run, normVars, mcVars, fmVars, fpVars >>

\* Choice 3: modify_thresholds stores the thresholds, the defaults when there
\* are none, with the company_name threshold entered or as it was.
ModifyThresholds ==
    /\ m_pc = "menu"
    /\ \E value \in EnteredThresholds \cup { ThresholdsOrDefault(m_settings).company_name } :
          m_settings' = SetItem(m_settings, "thresholds",
                                [ThresholdsOrDefault(m_settings)
                                    EXCEPT !.company_name = value])
    /\ m_pc' = "display"
    /\ UNCHANGED << m_files, m_error, m_run, normVars, mcVars, fmVars, fpVars >>

\* Choice 4: configure_column_mapping, which returns the settings as they
\* are without both files.
ConfigureColumnMapping ==
    /\ m_pc = "menu"
    /\ IF \/ NoFileSet(m_settings, "input_file") \/ NoFileSet(m_settings, "target_file")
          \/ m_settings["input_file"][1] \notin m_files
          \/ m_settings["target_file"][1] \notin m_files
       THEN m_settings' = m_settings
       ELSE \E column_mapping \in EnteredMappings :
               m_settings' = SetItem(m_settings, "column_mapping", column_mapping)
    /\ m_pc' = "display"
    /\ UNCHANGED << m_files, m_error, m_run, normVars, mcVars, fmVars, fpVars >>

\* Choice 5: find_matches is called with settings['thresholds'] when the
\* settings are valid; a missing key raises KeyError.
RunProgram ==
    /\ m_pc = "menu"
    /\ IF ~validate_settings(m_settings, m_files)
       THEN m_pc' = "display" /\ UNCHANGED << m_error, m_run >>
       ELSE IF "thresholds" \notin DOMAIN m_settings
       THEN m_pc' = "raised" /\ m_error' = << "KeyError" >> /\ m_run' = m_run
       ELSE m_pc' = "display" /\ m_run' = << m_settings["thresholds"] >> /\ m_error' = m_error
    /\ UNCHANGED << m_files, m_settings, normVars, mcVars, fmVars, fpVars >>

\* Choice 6: the loop ends.
ExitProgram ==
    /\ m_pc = "menu"
    /\ m_pc' = "exited"
    /\ UNCHANGED << m_files, m_settings, m_error, m_run, normVars, mcVars, fmVars, fpVars >>

NextMain ==
    \/ DisplaySettings
    \/ SelectFile
    \/ ModifyThresholds
    \/ ConfigureColumnMapping
    \/ RunProgram
    \/ ExitProgram

SpecMain == InitMain /\ [][NextMain]_vars

(***************************************************************************)
(* match_companies and find_matches on the same two datasets: each         *)
(* function takes its steps, in any order with the steps of the other.     *)
(***************************************************************************)

InitPipeline ==
    /\ mc_ideal \in PipelineTargets
    /\ mc_source \in PipelineSources
    /\ fm_thresholds \in RosterThresholds
    /\ mc_threshold = fm_thresholds.company_name
    /\ mc_column_mapping = DefaultColumnMapping(mc_ideal, mc_source)
    /\ mc_pc = "call"
    /\ mc_i = 0
    /\ mc_matches = << >>
    /\ fm_target = FileOf(mc_ideal.rows)
    /\ fm_source = FileOf(mc_source.rows)
    /\ fm_pc = "call"
    /\ fm_t = 0
    /\ fm_company_matches = << >>
    /\ fm_result = << >>
    /\ NormIdle
    /\ PersonIdle
    /\ MainIdle

NextPipeline == NextCompany \/ NextRoster

SpecPipeline == InitPipeline /\ [][NextPipeline]_vars

(***************************************************************************)
(* Properties of find_matches                                              *)
(***************************************************************************)

\* The rows in the order of a permutation p of their positions.
Permuted(rows, p) == [n \in DOMAIN rows |-> rows[p[n]]]

\* A roster as its entries in their order, each with its display name and
\* the set of its contacts (the order of the contacts in an entry is left
\* out).
RosterView(roster) ==
    [e \in DOMAIN roster |->
        << roster[e][1], roster[e][2], { roster[e][3][c] : c \in DOMAIN roster[e][3] } >>]

\* C1: the roster returned is the same - entries, order, display names,
\* contacts and flags - for every order of the target rows and every order of
\* the source rows.
C1_OrderIndependent ==
    (fm_pc = "done" /\ fm_target # None /\ fm_source # None)
        => \A p \in Permutations(DOMAIN fm_target.rows) :
              \A q \in Permutations(DOMAIN fm_source.rows) :
                 RosterView(find_matches(Permuted(fm_source.rows, q),
                                         Permuted(fm_target.rows, p), fm_thresholds))
                     = RosterView(fm_result)

\* A target row of the company target_norm matched the contact on a
\* person-level signal: a source row of a matching company with the key of
\* the contact gives a name, e-mail or title signal with the target row.
SignalledBy(target_row, target_norm, contact) ==
    /\ RowCompany(target_row) # None
    /\ NormalizedCompany(Text(RowCompany(target_row)[1])) = target_norm
    /\ \E n \in DOMAIN fm_source.rows :
          /\ CompanyMatches(target_norm, fm_source.rows[n], fm_thresholds)
          /\ ContactKey(ContactData(fm_source.rows[n], TRUE)) = ContactKey(contact)
          /\ PersonSignal(target_row, fm_source.rows[n], fm_thresholds)

\* C2: in the roster returned, a contact that some target row of its entry's
\* company matched on a person-level signal has its has_person_match flag set.
C2_FlagStaysTrue ==
    (fm_pc = "done" /\ fm_target # None /\ fm_source # None)
        => \A e \in DOMAIN fm_result :
              \A c \in DOMAIN fm_result[e][3] :
                 (\E t \in DOMAIN fm_target.rows :
                     SignalledBy(fm_target.rows[t], fm_result[e][1], fm_result[e][3][c]))
                    => fm_result[e][3][c]["has_person_match"]

(***************************************************************************)
(* find_person_matches(input_contacts, target_contacts, thresholds)        *)
(***************************************************************************)

\* Line 447: find_person_matches is called and matches is the empty list.
InitPerson ==
    /\ fp_input \in SeqsUpTo(InputContacts, MaxPersonInputs)
    /\ fp_target \in SeqsUpTo(TargetContacts, MaxPersonTargets) \cup { << >> }
    /\ fp_thresholds \in PersonThresholds
    /\ (Len(fp_input) > 1 \/ Len(fp_target) > 1) => fp_thresholds \in ListThresholds
    /\ fp_pc = "inputs"
    /\ fp_i = 0
    /\ fp_j = 0
    /\ fp_best_score = 0
    /\ fp_best_match = None
    /\ fp_name_score = None
    /\ fp_matches = << >>
    /\ NormIdle
    /\ CompanyIdle
    /\ RosterIdle
    /\ MainIdle

\* Lines 449-454: the next input contact, without a best match yet
NextInputContact ==
    /\ fp_pc = "inputs"
    /\ fp_i < Len(fp_input)
    /\ fp_i' = fp_i + 1
    /\ fp_j' = 0
    /\ fp_best_match' = None
    /\ fp_best_score' = 0
    /\ fp_pc' = "targets"
    /\ UNCHANGED << fp_input, fp_target, fp_thresholds, fp_name_score, fp_matches,
                    normVars, mcVars, fmVars, mainVars >>

\* Lines 456-519: the input contact is compared with the next target contact.
CompareTarget ==
    /\ fp_pc = "targets"
    /\ fp_j < Len(fp_target)
    /\ fp_j' = fp_j + 1
    /\ LET after == compare_target(fp_input[fp_i], fp_target[fp_j + 1], fp_thresholds,
                                   [score |-> fp_best_score, match |-> fp_best_match])
       IN  /\ fp_pc' = after.pc
           /\ fp_name_score' = after.name_score
           /\ fp_best_score' = after.score
           /\ fp_best_match' = after.match
    /\ UNCHANGED << fp_input, fp_target, fp_thresholds, fp_i, fp_matches,
                    normVars, mcVars, fmVars, mainVars >>

\* Lines 521-522: the best match of the input contact, if any, is appended.
AppendBest ==
    /\ fp_pc = "targets"
    /\ fp_j = Len(fp_target)
    /\ fp_matches' = IF fp_best_match # None
                     THEN Append(fp_matches, fp_best_match[1])
                     ELSE fp_matches
    /\ fp_pc' = "inputs"
    /\ UNCHANGED << fp_input, fp_target, fp_thresholds, fp_i, fp_j, fp_best_score,
                    fp_best_match, fp_name_score, normVars, mcVars, fmVars, mainVars >>

\* Lines 524-525: every input contact is processed and matches is returned.
ReturnPersonMatches ==
    /\ fp_pc = "inputs"
    /\ fp_i = Len(fp_input)
    /\ fp_pc' = "returned"
    /\ UNCHANGED << fp_input, fp_target, fp_thresholds, fp_i, fp_j, fp_best_score,
                    fp_best_match, fp_name_score, fp_matches, normVars, mcVars, fmVars, mainVars >>

NextPerson == NextInputContact \/ CompareTarget \/ AppendBest \/ ReturnPersonMatches

SpecPerson == InitPerson /\ [][NextPerson]_vars

\* One input contact was compared with one target contact, their companies
\* passed the gate of lines 461-471 and the comparison came to line 513 with
\* a final name_score.
OnePairScored ==
    /\ fp_pc = "returned"
    /\ Len(fp_input) = 1
    /\ Len(fp_target) = 1
    /\ fp_name_score # None

\* C10: for one input contact and one target contact at matched companies,
\* find_person_matches returns a Person Match (this pair, with the final
\* score) if and only if the final, possibly email-boosted, score is at
\* least thresholds['person_name'], for every threshold from 0 to 100.  (The
\* test of line 513 also asks for a score above best_score = 0; the three
\* ratios of the str of two keys are never 0, the keys sharing their field
\* names.)
C10_MatchIffScoreReachesThreshold ==
    OnePairScored =>
        IF fp_name_score[1] >= fp_thresholds.person_name
        THEN fp_matches = << [input_contact |-> fp_input[1],
                              target_contact |-> fp_target[1],
                              score |-> fp_name_score[1]] >>
        ELSE fp_matches = << >>

\* A pair is accepted at the threshold 0.
C10_Witness ==
    /\ OnePairScored
    /\ fp_thresholds.person_name = 0
    /\ Len(fp_matches) = 1

\* The call was given one input contact and one target contact and ended, by
\* returning or by raising.
OnePairEnded ==
    /\ fp_pc \in { "returned", "raised" }
    /\ Len(fp_input) = 1
    /\ Len(fp_target) = 1

\* Both contacts carry a non-empty email address and the two are equal but
\* for the case of their letters.
SameEmail(input_contact, target_contact) ==
    /\ ~IsNa(GetCell(input_contact, "email"))
    /\ ~IsNa(GetCell(target_contact, "email"))
    /\ GetCell(input_contact, "email")[1] # ""
    /\ Lower(GetCell(input_contact, "email")[1]) = Lower(GetCell(target_contact, "email")[1])

\* C11: two contacts at matched companies whose non-empty email addresses
\* are equal ignoring case are returned as a Person Match with a score of at
\* least thresholds['person_name'] + 10, whatever their names and for every
\* threshold from 0 to 100.
C11_SameEmailAccepted ==
    (/\ OnePairEnded
     /\ CompanyGate(ContactCompany(fp_input[1]), ContactCompany(fp_target[1]),
                    fp_thresholds)
     /\ SameEmail(fp_input[1], fp_target[1]))
        => /\ fp_pc = "returned"
           /\ Len(fp_matches) = 1
           /\ fp_matches[1].input_contact = fp_input[1]
           /\ fp_matches[1].target_contact = fp_target[1]
           /\ fp_matches[1].score >= fp_thresholds.person_name + 10


\* The alias groups of the first names.
AliasGroups == { { "william", "will", "bill", "billy" }, { "robert", "rob", "bob", "bobby" } }

\* The first names of the two contacts are variants of one alias group, their
\* last names are equal and neither has an email address.
AliasPair(input_contact, target_contact) ==
    /\ ~IsNa(GetCell(input_contact, "first_name"))
    /\ ~IsNa(GetCell(target_contact, "first_name"))
    /\ \E g \in AliasGroups :
          /\ Lower(GetCell(input_contact, "first_name")[1]) \in g
          /\ Lower(GetCell(target_contact, "first_name")[1]) \in g
    /\ GetCell(input_contact, "last_name") = GetCell(target_contact, "last_name")
    /\ GetCell(input_contact, "email") = Text("")
    /\ GetCell(target_contact, "email") = Text("")

\* C12: an input contact and a target contact at matched companies whose
\* first names are variants of one alias group ('Bill' and 'William'), with
\* equal last names and no email, are returned as a Person Match when the
\* direct similarity of their keys is below thresholds['person_name'].
C12_AliasPairAccepted ==
    (/\ OnePairEnded
     /\ CompanyGate(ContactCompany(fp_input[1]), ContactCompany(fp_target[1]),
                    fp_thresholds)
     /\ AliasPair(fp_input[1], fp_target[1])
     /\ KeyScore(fp_input[1], fp_target[1]) < fp_thresholds.person_name)
        => /\ fp_pc = "returned"
           /\ Len(fp_matches) = 1
           /\ fp_matches[1].input_contact = fp_input[1]
           /\ fp_matches[1].target_contact = fp_target[1]


\* The final score of input contact i and target contact j on their own:
\* None when their companies do not pass the gate, else << name_score >>.
PairScore(i, j) ==
    compare_target(fp_input[i], fp_target[j], fp_thresholds,
                   [score |-> 0, match |-> None]).name_score

\* The positions of the target contacts that are accepted for input contact i:
\* their final score with it reaches thresholds['person_name'].
AcceptedTargets(i) ==
    { j \in DOMAIN fp_target :
        /\ PairScore(i, j) # None
        /\ PairScore(i, j)[1] >= fp_thresholds.person_name }

\* The earliest of the accepted targets of input contact i with the highest
\* final score.
BestTarget(i) ==
    LET top == Max({ PairScore(i, j)[1] : j \in AcceptedTargets(i) })
    IN  Min({ j \in AcceptedTargets(i) : PairScore(i, j)[1] = top })

RECURSIVE BestMatches(_)
\* One match for each of the first n input contacts that has an accepted
\* target, in the order of the input contacts.
BestMatches(n) ==
    IF n = 0 THEN << >>
    ELSE IF AcceptedTargets(n) = {} THEN BestMatches(n - 1)
    ELSE Append(BestMatches(n - 1),
                [input_contact  |-> fp_input[n],
                 target_contact |-> fp_target[BestTarget(n)],
                 score          |-> PairScore(n, BestTarget(n))[1]])

\* C13: find_person_matches returns at most one Person Match per input
\* contact, in input order: for each input contact with accepted targets the
\* match with the earliest target of the highest final score.  Nothing keeps
\* one target contact from being the best match of several input contacts.
C13_OneBestMatchPerInput ==
    fp_pc = "returned"
        => /\ Len(fp_matches) <= Len(fp_input)
           /\ fp_matches = BestMatches(Len(fp_input))

\* C13 happens: two different input contacts are matched with the same target
\* contact, which for the first of them ties with a different, later target.
C13_Witness ==
    /\ fp_pc = "returned"
    /\ Len(fp_matches) = 2
    /\ fp_input[1] # fp_input[2]
    /\ fp_matches[1].target_contact = fp_matches[2].target_contact
    /\ Len(fp_target) = 2
    /\ fp_target[1] # fp_target[2]
    /\ AcceptedTargets(1) = { 1, 2 }
    /\ PairScore(1, 1) = PairScore(1, 2)
    /\ fp_matches[1].target_contact = fp_target[1]


\* C14: every Person Match pairs two contacts whose companies satisfy the
\* acceptance rule of the Company Matcher: both normalized company names are
\* non-empty and their token-sort similarity reaches
\* thresholds['company_name'].
C14_MatchesWithinCompanyMatch ==
    \A k \in DOMAIN fp_matches :
        /\ ContactCompany(fp_matches[k].input_contact) # ""
        /\ ContactCompany(fp_matches[k].target_contact) # ""
        /\ TokenSortScore(ContactCompany(fp_matches[k].input_contact),
                          ContactCompany(fp_matches[k].target_contact))
               >= fp_thresholds.company_name


\* find_matches returned the roster of one target row and one source row
\* whose companies matched: one entry with one contact.
OneRowPair ==
    /\ fm_pc = "done"
    /\ fm_target # None
    /\ fm_source # None
    /\ Len(fm_target.rows) = 1
    /\ Len(fm_source.rows) = 1
    /\ Len(fm_result) = 1

\* The text of a cell of a row: '' for a column the row does not have and for
\* a cell without a value, else the cell without the blanks around it.
CellText(row, col) ==
    IF col \notin DOMAIN row \/ IsNa(row[col]) THEN "" ELSE Strip(row[col][1])

\* The normalized full names of the two rows are non-empty and their
\* similarity reaches thresholds['person_name'].
NamesAlike(target_row, source_row, thresholds) ==
    LET s == NormalizedPerson(Text(FullName(source_row)))
        t == NormalizedPerson(Text(FullName(target_row)))
    IN  s # "" /\ t # "" /\ TokenSortScore(s, t) >= thresholds.person_name

\* Both rows have a non-empty email address and the two are equal but for
\* the case of their letters.
EmailsAlike(target_row, source_row) ==
    /\ CellText(source_row, "Email Address") # ""
    /\ CellText(target_row, "Email Address") # ""
    /\ Lower(CellText(source_row, "Email Address"))
           = Lower(CellText(target_row, "Email Address"))

\* The normalized titles of the two rows are non-empty and their similarity
\* reaches thresholds['title'].
TitlesAlike(target_row, source_row, thresholds) ==
    LET s == IF CellText(source_row, "Position") = "" THEN ""
             ELSE NormalizedTitle(source_row["Position"])
        t == IF CellText(target_row, "Job Title") = "" THEN ""
             ELSE NormalizedTitle(target_row["Job Title"])
    IN  s # "" /\ t # "" /\ TokenSortScore(s, t) >= thresholds.title

\* C15: for one target row and one source row with matched companies, the
\* contact's has_person_match is true if and only if the names, the emails
\* or the titles of the two rows give a signal; each signal is enough alone.
C15_FlagIffSomeSignal ==
    OneRowPair
        => /\ Len(fm_result[1][3]) = 1
           /\ fm_result[1][3][1]["has_person_match"]
                  = (\/ NamesAlike(fm_target.rows[1], fm_source.rows[1], fm_thresholds)
                     \/ EmailsAlike(fm_target.rows[1], fm_source.rows[1])
                     \/ TitlesAlike(fm_target.rows[1], fm_source.rows[1], fm_thresholds))

\* C15 happens: the flag is set by the titles alone.
C15_Witness ==
    /\ OneRowPair
    /\ fm_result[1][3][1]["has_person_match"]
    /\ TitlesAlike(fm_target.rows[1], fm_source.rows[1], fm_thresholds)
    /\ ~NamesAlike(fm_target.rows[1], fm_source.rows[1], fm_thresholds)
    /\ ~EmailsAlike(fm_target.rows[1], fm_source.rows[1])


\* The identity key of a contact: its first name, last name and email,
\* lower-cased.
IdentityKey(contact) ==
    << Lower(GetField(contact, "First Name")), Lower(GetField(contact, "Last Name")),
       Lower(GetField(contact, "Email Address")) >>

\* C16: a roster entry holds one contact per lower-cased (first name, last
\* name, email) identity key: source rows that differ in the case of these
\* fields only give one contact.
C16_OneContactPerIdentityKey ==
    \A e \in DOMAIN fm_result :
        \A c, d \in DOMAIN fm_result[e][3] :
            c # d => IdentityKey(fm_result[e][3][c]) # IdentityKey(fm_result[e][3][d])


\* The rows with every row given twice in a row.
Doubled(rows) == [n \in 1..(2 * Len(rows)) |-> rows[(n + 1) \div 2]]

\* C17: the upsert into the roster is idempotent.  Processing the target
\* row just processed once more, with every source row given twice, leaves
\* the roster as it is, and so does a second pass over all target rows; no
\* entry holds two contacts with the same first name, last name and email,
\* and no two entries have the same normalized company.
C17_UpsertIdempotent ==
    /\ (fm_pc = "loop" /\ fm_t > 1)
          => TargetStep(fm_company_matches, fm_target.rows[fm_t - 1],
                        Doubled(fm_source.rows), fm_thresholds) = fm_company_matches
    /\ (fm_pc = "done" /\ fm_target # None /\ fm_source # None)
          => /\ AllTargets(fm_company_matches, fm_target.rows, fm_source.rows,
                           fm_thresholds, 1) = fm_company_matches
             /\ Len(fm_result) = Len(fm_company_matches)
    /\ \A e \in DOMAIN fm_company_matches :
          \A c, d \in DOMAIN fm_company_matches[e].value[3] :
             c # d => ContactKey(fm_company_matches[e].value[3][c])
                          # ContactKey(fm_company_matches[e].value[3][d])
    /\ \A e, f \in DOMAIN fm_company_matches :
          e # f => fm_company_matches[e].value[1] # fm_company_matches[f].value[1]
    /\ \A e \in DOMAIN fm_result :
          \A c, d \in DOMAIN fm_result[e][3] :
             c # d => ContactKey(fm_result[e][3][c]) # ContactKey(fm_result[e][3][d])
    /\ \A e, f \in DOMAIN fm_result : e # f => fm_result[e][1] # fm_result[f][1]

\* C17 happens: the same target row was processed twice with the same source
\* row, itself given twice, and the entry holds the one contact.
C17_Witness ==
    /\ fm_pc = "done" /\ fm_target # None /\ fm_source # None
    /\ Len(fm_target.rows) = 2 /\ fm_target.rows[1] = fm_target.rows[2]
    /\ Len(fm_source.rows) = 2 /\ fm_source.rows[1] = fm_source.rows[2]
    /\ Len(fm_result) = 1
    /\ Len(fm_result[1][3]) = 1


\* The target rows that find_matches has gone through.
ProcessedRows ==
    IF fm_target = None \/ fm_source = None \/ fm_pc = "call" THEN {}
    ELSE 1..(fm_t - 1)

\* The normalized company of a target row, "" for a row without a company.
TargetNorm(row) ==
    IF RowCompany(row) = None THEN ""
    ELSE NormalizedCompany(Text(RowCompany(row)[1]))

\* The processed target rows whose company normalizes to norm.
RowsOfNorm(norm) == { n \in ProcessedRows : TargetNorm(fm_target.rows[n]) = norm }

\* The identity keys of the contacts collected for the target row at n.
CollectedKeys(n) ==
    LET contact_dict == ContactsOf(fm_target.rows[n], TargetNorm(fm_target.rows[n]),
                                   fm_source.rows, fm_thresholds, 1, << >>)
    IN  { contact_dict[c].key : c \in DOMAIN contact_dict }

\* C18: for every normalized company of the target rows gone through for
\* which contacts were collected, the roster has exactly one entry; its
\* contacts are, one per identity key, those collected for all the rows of
\* that company, and its display name is the company text of one of these
\* rows, none of which has a longer one. The entries returned are the ones
\* built.
C18_OneEntryPerNormalizedCompany ==
    /\ \A norm \in { TargetNorm(fm_target.rows[n]) : n \in ProcessedRows } \ { "" } :
          LET keys == UNION { CollectedKeys(n) : n \in RowsOfNorm(norm) }
              entries == { e \in DOMAIN fm_company_matches :
                             fm_company_matches[e].key = norm }
          IN  IF keys = {} THEN entries = {}
              ELSE /\ Cardinality(entries) = 1
                   /\ \A e \in entries :
                         LET entry == fm_company_matches[e].value
                         IN  /\ entry[1] = norm
                             /\ { ContactKey(entry[3][c]) : c \in DOMAIN entry[3] } = keys
                             /\ Len(entry[3]) = Cardinality(keys)
                             /\ \E n \in RowsOfNorm(norm) :
                                   entry[2] = RowCompany(fm_target.rows[n])[1]
                             /\ \A n \in RowsOfNorm(norm) :
                                   Len(RowCompany(fm_target.rows[n])[1]) <= Len(entry[2])
    /\ \A e \in DOMAIN fm_company_matches :
          fm_company_matches[e].key \in { TargetNorm(fm_target.rows[n]) : n \in ProcessedRows }
    /\ fm_pc = "done" /\ fm_target # None /\ fm_source # None
          => /\ Len(fm_result) = Len(fm_company_matches)
             /\ { fm_result[e] : e \in DOMAIN fm_result }
                   = { fm_company_matches[e].value : e \in DOMAIN fm_company_matches }

\* find_matches has returned one entry for two target rows of one normalized
\* company, the first with the longer company text, and the entry has
\* contacts.
C18_Witness ==
    /\ fm_pc = "done" /\ fm_target # None /\ fm_source # None
    /\ Len(fm_target.rows) = 2
    /\ TargetNorm(fm_target.rows[1]) = TargetNorm(fm_target.rows[2])
    /\ RowCompany(fm_target.rows[1]) # None
    /\ Len(RowCompany(fm_target.rows[1])[1]) > Len(RowCompany(fm_target.rows[2])[1])
    /\ Len(fm_result) = 1
    /\ fm_result[1][2] = RowCompany(fm_target.rows[1])[1]
    /\ Len(fm_result[1][3]) > 0

\* C19: the entries that find_matches returns are in non-decreasing order of
\* their lower-cased display names, and they are, in the same order, the
\* entries that a second run on the same files and thresholds returns.
C19_RosterSortedByLoweredName ==
    fm_pc = "done" /\ fm_target # None /\ fm_source # None
        => /\ \A e, f \in DOMAIN fm_result :
                 e < f => ~StrLess(Lower(fm_result[f][2]), Lower(fm_result[e][2]))
           /\ fm_result = find_matches(fm_source.rows, fm_target.rows, fm_thresholds)

\* find_matches has returned two entries in the order of their lower-cased
\* names, which is not the order of the names as they are written.
C19_Witness ==
    /\ fm_pc = "done" /\ fm_target # None /\ fm_source # None
    /\ Len(fm_result) = 2
    /\ StrLess(Lower(fm_result[1][2]), Lower(fm_result[2][2]))
    /\ StrLess(fm_result[2][2], fm_result[1][2])

\* The fields of the standard contact schema.
StandardFields == { field_mapping[n][2] : n \in DOMAIN field_mapping }

\* The contacts of the entries of a roster.
RosterContacts(entries) ==
    UNION { { entries[e][3][c] : c \in DOMAIN entries[e][3] } : e \in DOMAIN entries }

\* C20: every contact of the roster, while it is built and when it is
\* returned, has the seven fields of the standard schema and has_person_match,
\* and a field whose column no row of the source file has is the empty
\* string.
C20_ContactsCarryStandardFields ==
    \A contact \in RosterContacts(Values(fm_company_matches)) \cup RosterContacts(fm_result) :
       /\ StandardFields \cup { "has_person_match" } \subseteq DOMAIN contact
       /\ \A n \in DOMAIN field_mapping :
             (\A r \in DOMAIN fm_source.rows : field_mapping[n][1] \notin DOMAIN fm_source.rows[r])
                => contact[field_mapping[n][2]] = ""

(***************************************************************************)
(* Properties of match_companies and find_matches on the same datasets     *)
(***************************************************************************)

\* None of the names is a column of the dataset.
NoColumnOf(df, names) == \A n \in DOMAIN df.columns : df.columns[n] \notin names

\* C21: when the source dataset has no rows, or the target dataset has no
\* column that is recognized as the company column, match_companies does not
\* raise and has no match, and find_matches has no roster entry, while they
\* run and when they have returned.
C21_EmptyInputsYieldNothing ==
    /\ (Len(mc_source.rows) = 0 \/ NoColumnOf(mc_ideal, app_company_columns))
          => mc_pc # "raised" /\ mc_matches = << >>
    /\ (fm_pc # "idle" /\ fm_target # None /\ fm_source # None
          /\ (Len(fm_source.rows) = 0
                \/ NoColumnOf(mc_ideal, { company_cols[n] : n \in DOMAIN company_cols })))
          => fm_company_matches = << >> /\ fm_result = << >>

\* Both functions have returned for a target dataset with a company in its
\* column "Organization" and a source dataset with a company.
C21_Witness ==
    /\ mc_pc = "done" /\ fm_pc = "done"
    /\ NoColumnOf(mc_ideal, app_company_columns)
    /\ \E n \in DOMAIN mc_ideal.rows : ~IsNa(mc_ideal.rows[n]["Organization"])
    /\ \E n \in DOMAIN mc_source.rows : RowCompany(mc_source.rows[n]) # None
    /\ mc_matches = << >> /\ fm_result = << >>

\* C22: when the ideal dataset has a company column and no rows and a source
\* row has a normalized company that is not empty, match_companies does not
\* raise, and what it returns is the empty list.
C22_EmptyIdealReturnsNoMatches ==
    (/\ mc_pc # "idle"
     /\ app_company_col(mc_ideal) # None /\ app_company_col(mc_source) # None
     /\ Len(mc_ideal.rows) = 0
     /\ \E i \in DOMAIN mc_source.rows : source_company_at(mc_source, i) # "")
        => mc_pc # "raised" /\ mc_matches = << >>

\* The value is a text.
IsText(v) == Len(v) = 1

\* C23: whatever normalize_company_name, normalize_person_name and
\* normalize_job_title return for a value that is absent or is not a text is
\* the empty string.
C23_EmptyForAbsentOrNonText ==
    (IsNa(n_name) \/ ~IsText(n_name))
        => /\ n_result # None => n_result[1] = ""
           /\ n_person # None => n_person[1] = ""
           /\ n_title # None => n_title[1] = ""

\* C28: no word of a normalized job title is one of the filler words of, the,
\* and, &, for, to, in, at.
C28_NoFillerWordLeft ==
    (n_title # None /\ ~IsNa(n_name))
        => \A w \in WordSet(n_title[1]) : \A n \in DOMAIN fillers : w # fillers[n]

\* The datasets of the end-to-end example: one target row and one source row.
ExampleTarget ==
    Dataset(TargetColumns("Company"),
            << TargetRow(Text("Acme Corporation"), Text("Jane"), Text("Doe"),
                         Text("jane@acme.com"), Text("CTO")) >>, "Company")

ExampleSource ==
    Dataset(SourceColumns("Company"),
            << SourceRow(Text("ACME Corp"), Text("Jane"), Text("Doe"), Text("jane@acme.com"),
                         Text("Chief Technology Officer")) >>, "Company")

\* The two functions are run on the example with the default thresholds.
OnExample ==
    mc_ideal = ExampleTarget /\ mc_source = ExampleSource /\ fm_thresholds = DefaultThresholds

\* C24: on the example, match_companies returns exactly one match, of
\* "Acme Corporation" with "ACME Corp" and a score of 85 or more, and
\* find_matches returns exactly one entry, named "Acme Corporation", with
\* exactly one contact, whose has_person_match is true.
C24_EndToEndExample ==
    /\ (OnExample /\ mc_pc \in { "done", "raised" })
          => /\ mc_pc = "done"
             /\ Len(mc_matches) = 1
             /\ mc_matches[1].ideal_company = Text("Acme Corporation")
             /\ mc_matches[1].source_company = Text("ACME Corp")
             /\ mc_matches[1].score >= 85
    /\ (OnExample /\ fm_pc = "done")
          => /\ Len(fm_result) = 1
             /\ fm_result[1][2] = "Acme Corporation"
             /\ Len(fm_result[1][3]) = 1
             /\ fm_result[1][3][1]["has_person_match"] = TRUE

\* Both functions have returned on the example.
C24_Witness ==
    /\ OnExample /\ mc_pc = "done" /\ fm_pc = "done"
    /\ Len(mc_matches) = 1 /\ mc_matches[1].score = 100
    /\ Len(fm_result) = 1
    /\ fm_result[1][3][1]["Company"] = "ACME Corp"

\* The row has no value in the column: the column is missing or the cell is
\* NaN.
Absent(row, col) == col \notin DOMAIN row \/ IsNa(row[col])

\* C25: after a target row is gone through, a contact of its entry has
\* has_person_match false when neither the contact nor the target row has an
\* e-mail address or a title and the first and the last name are absent from
\* the contact's source row or from the target row.
C25_AbsentNamesGiveNoSignal ==
    (fm_pc = "loop" /\ fm_t > 1)
        => LET target_row == fm_target.rows[fm_t - 1]
           IN  \A e \in DOMAIN fm_company_matches :
                  fm_company_matches[e].key = TargetNorm(target_row)
                      => \A c \in DOMAIN fm_company_matches[e].value[3] :
                            LET contact == fm_company_matches[e].value[3][c]
                            IN  (/\ GetField(contact, "Email Address") = ""
                                 /\ GetField(contact, "Job Title") = ""
                                 /\ Absent(target_row, "Email Address")
                                 /\ Absent(target_row, "Job Title")
                                 /\ \/ /\ GetField(contact, "First Name") = ""
                                       /\ GetField(contact, "Last Name") = ""
                                    \/ /\ Absent(target_row, "First Name")
                                       /\ Absent(target_row, "Last Name"))
                                    => contact["has_person_match"] = FALSE

\* C26: when the ideal file has no column called "Company" or "Company Name",
\* the column mapping gives a column of the ideal file for the source column
\* "Company", and a source row has the normalized company of an ideal row
\* in that column, match_companies returns a match.
C26_MappedCompanyColumnIsCompared ==
    (/\ mc_pc = "done"
     /\ app_company_col(mc_ideal) = None
     /\ "Company" \in DOMAIN mc_column_mapping
     /\ \E i \in DOMAIN mc_source.rows : \E n \in DOMAIN mc_ideal.rows :
           /\ AppNormalizedCompany(mc_source.rows[i]["Company"]) # ""
           /\ AppNormalizedCompany(mc_source.rows[i]["Company"])
                 = AppNormalizedCompany(mc_ideal.rows[n][mc_column_mapping["Company"]]))
        => mc_matches # << >>

\* The first name, last name and e-mail address of a contact, as written.
NameAndEmail(contact) ==
    << GetField(contact, "First Name"), GetField(contact, "Last Name"),
       GetField(contact, "Email Address") >>

\* The source rows with a usable company whose normalized name has a
\* token-sort similarity with target_norm that reaches the company_name
\* threshold.
MatchingSourceRows(target_norm) ==
    { n \in DOMAIN fm_source.rows :
        /\ RowCompany(fm_source.rows[n]) # None
        /\ NormalizedCompany(Text(RowCompany(fm_source.rows[n])[1])) # ""
        /\ TokenSortScore(target_norm,
                          NormalizedCompany(Text(RowCompany(fm_source.rows[n])[1])))
              >= fm_thresholds.company_name }

\* C27: when find_matches has returned, the roster has an entry for the
\* normalized company of a target row exactly when a source row with a usable
\* company is similar enough to it; the contacts of the entry have exactly
\* the first names, last names and e-mail addresses of these source rows;
\* every entry is the one of a target row and no entry is without contacts.
C27_RosterCompleteAndSound ==
    (fm_pc = "done" /\ fm_target # None /\ fm_source # None)
        => /\ \A t \in DOMAIN fm_target.rows :
                 LET target_norm == TargetNorm(fm_target.rows[t])
                     entries == { e \in DOMAIN fm_result : fm_result[e][1] = target_norm }
                 IN  target_norm # ""
                        => /\ entries # {} <=> MatchingSourceRows(target_norm) # {}
                           /\ \A e \in entries :
                                 { NameAndEmail(fm_result[e][3][c]) :
                                     c \in DOMAIN fm_result[e][3] }
                                   = { NameAndEmail(ContactDataOf(fm_source.rows[n], FALSE)) :
                                         n \in MatchingSourceRows(target_norm) }
           /\ \A e \in DOMAIN fm_result :
                 /\ Len(fm_result[e][3]) > 0
                 /\ fm_result[e][1] # ""
                 /\ \E t \in DOMAIN fm_target.rows :
                       fm_result[e][1] = TargetNorm(fm_target.rows[t])

\* find_matches has returned for two target rows of different companies, of
\* which one has an entry, with a contact for each of two source rows, and
\* the other has none.
C27_Witness ==
    /\ fm_pc = "done" /\ fm_target # None /\ fm_source # None
    /\ Len(fm_target.rows) = 2
    /\ TargetNorm(fm_target.rows[1]) # ""
    /\ TargetNorm(fm_target.rows[2]) # ""
    /\ MatchingSourceRows(TargetNorm(fm_target.rows[1])) = {}
    /\ Cardinality(MatchingSourceRows(TargetNorm(fm_target.rows[2]))) = 2
    /\ Len(fm_result) = 1
    /\ Len(fm_result[1][3]) = 2

\* C29: the score of every match that find_person_matches has appended is
\* between 0 and 100.
C29_ScoreWithinRange ==
    \A k \in DOMAIN fp_matches : fp_matches[k].score \in 0..100

(***************************************************************************)
(* Properties of main                                                      *)
(***************************************************************************)

\* C30: when validate_settings accepts the settings and Run is chosen, the
\* thresholds are there, the defaults if never modified: main never ends
\* with the KeyError of a missing 'thresholds' setting.
C30_RunHasThresholds == m_error # << "KeyError" >>

=============================================================================
